---------------------------- MODULE Spec2Model ----------------------------
(***************************************************************************)
(* PCA9685 16-channel PWM driver (PCA9685-Arduino), hardware-i2c build     *)
(* (PCA9685_USE_SOFTWARE_I2C and PCA9685_SWAP_PWM_BEG_END_REGS undefined). *)
(*                                                                         *)
(* Six specifications share the variables:                                 *)
(*   SpecPhase  the phase-cycle arithmetic on its own: getPhaseCycle and   *)
(*              the read-back decode of getChannelPWM applied to inputs    *)
(*              drawn in Init;                                             *)
(*   Spec       the device object and the i2c transport: the public        *)
(*              operations, with every transport outcome an input;         *)
(*   SpecServo  the PCA9685_ServoEval object: its constructors and         *)
(*              pwmForAngle;                                               *)
(*   SpecChip   the device object over a transport that never fails, with  *)
(*              the chip's registers at the other end.                     *)
(*   SpecLoop   setChannelsPWM alone, its loop run on to the return;       *)
(*   SpecMode1  the operations on the MODE1 register over a transport that *)
(*              may fail, with the chip's registers at the other end.      *)
(***************************************************************************)
EXTENDS Integers, Sequences, FiniteSets, TLC

(***************************************************************************)
(* Program constants.                                                      *)
(***************************************************************************)
PCA9685_I2C_BASE_MODULE_ADDRESS == 64
PCA9685_I2C_BASE_MODULE_ADRMASK == 63
PCA9685_I2C_BASE_PROXY_ADDRESS == 224
PCA9685_I2C_BASE_PROXY_ADRMASK == 254
PCA9685_MODE1_REG == 0
PCA9685_MODE2_REG == 1
PCA9685_SUBADR1_REG == 2
PCA9685_SUBADR2_REG == 3
PCA9685_SUBADR3_REG == 4
PCA9685_ALLCALL_REG == 5
PCA9685_LED0_REG == 6
PCA9685_PRESCALE_REG == 254
PCA9685_ALLLED_REG == 250
PCA9685_MODE1_RESTART == 128
PCA9685_MODE1_EXTCLK == 64
PCA9685_MODE1_AUTOINC == 32
PCA9685_MODE1_SLEEP == 16
PCA9685_MODE1_SUBADR1 == 8
PCA9685_MODE1_SUBADR2 == 4
PCA9685_MODE1_SUBADR3 == 2
PCA9685_MODE1_ALLCALL == 1
PCA9685_MODE2_OUTDRV_TPOLE == 4
PCA9685_MODE2_INVRT == 16
PCA9685_MODE2_OUTNE_TPHIGH == 1
PCA9685_MODE2_OUTNE_HIGHZ == 2
PCA9685_MODE2_OCH_ONACK == 8
PCA9685_SW_RESET == 6
PCA9685_PWM_FULL == 4096
PCA9685_PWM_MASK == 4095
PCA9685_CHANNEL_COUNT == 16
PCA9685_MIN_CHANNEL == 0
PCA9685_MAX_CHANNEL == PCA9685_CHANNEL_COUNT - 1
PCA9685_ALLLED_CHANNEL == -1
PCA9685_PBLIN_STEPS == PCA9685_PWM_FULL \div PCA9685_CHANNEL_COUNT

\* The values of enum PCA9685_PhaseBalancer that getPhaseCycle switches over.
PhaseBalancers == {"None", "Linear", "Dynamic", "Count", "Undefined"}

(***************************************************************************)
(* Bounds of the model.                                                    *)
(***************************************************************************)
\* pwmAmount arguments of the phase arithmetic run over 0 .. MaxPwmAmount
\* (every 12-bit duty, the full-on value and a few above it) and UINT16_MAX.
MaxPwmAmount == 4099
\* Read-back register values: the low 12 bits come within MaxPhaseEdge of
\* either end of the range, each with the full flag clear and set.
MaxPhaseEdge == 12

(***************************************************************************)
(* Machine arithmetic.                                                     *)
(***************************************************************************)
UINT16_MAX == 65535

Min(a, b) == IF a < b THEN a ELSE b

Max(a, b) == IF a > b THEN a ELSE b

\* Conversion of an int to uint16_t.
U16(x) == x % (UINT16_MAX + 1)

\* Conversion of an int to byte / uint8_t.
U8(x) == x % 256

lowByte(w) == w % 256

highByte(w) == (w \div 256) % 256

(***************************************************************************)
(* PCA9685::getPhaseCycle: the (phaseBegin, phaseEnd) pair written for     *)
(* pwmAmount on channel under the device's phase balancer.  pwmAmount and  *)
(* both results are uint16_t.                                              *)
(***************************************************************************)
\* As getPhaseCycle_Linear, without the closing recomputation of phaseBegin.
getPhaseCycle_Linear_NoRecompute(channel, pwmAmount) ==
    LET beg0 == U16(Max(0, (channel * PCA9685_PBLIN_STEPS) - (pwmAmount \div 2)))
        end1 == U16(Min(PCA9685_PWM_FULL - 1, beg0 + pwmAmount))
    IN  <<beg0, end1>>

\* As getPhaseCycle_Linear, phaseEnd clamped to PCA9685_PWM_FULL.
getPhaseCycle_Linear_ClampFull(channel, pwmAmount) ==
    LET beg0 == U16(Max(0, (channel * PCA9685_PBLIN_STEPS) - (pwmAmount \div 2)))
        end1 == U16(Min(PCA9685_PWM_FULL, beg0 + pwmAmount))
        beg1 == U16(end1 - pwmAmount)
    IN  <<beg1, end1>>

getPhaseCycle_Linear(channel, pwmAmount) ==
    LET beg0 == U16(Max(0, (channel * PCA9685_PBLIN_STEPS) - (pwmAmount \div 2)))
        end1 == U16(Min(PCA9685_PWM_FULL - 1, beg0 + pwmAmount))
        beg1 == U16(end1 - pwmAmount)
    IN  <<beg1, end1>>

\* As getPhaseCycle_Unshifted, masking with 0x07FF.
getPhaseCycle_Unshifted_NarrowMask(pwmAmount) ==
    LET beg0 == 0
    IN  <<beg0, (beg0 + pwmAmount) % 2048>>

getPhaseCycle_Unshifted(pwmAmount) ==
    LET beg0 == 0
    IN  <<beg0, (beg0 + pwmAmount) % (PCA9685_PWM_MASK + 1)>>

\* As getPhaseCycle, testing the ALLLED channel before the full-on amount.
getPhaseCycle_ChannelFirst(balancer, channel, pwmAmount) ==
    IF pwmAmount = 0
    THEN <<0, PCA9685_PWM_FULL>>
    ELSE IF channel = PCA9685_ALLLED_CHANNEL
    THEN getPhaseCycle_Unshifted(pwmAmount)
    ELSE IF pwmAmount >= PCA9685_PWM_FULL
    THEN <<PCA9685_PWM_FULL, 0>>
    ELSE CASE balancer \in {"None", "Count", "Undefined", "Dynamic"} ->
                  getPhaseCycle_Unshifted(pwmAmount)
           [] balancer = "Linear" ->
                  getPhaseCycle_Linear(channel, pwmAmount)

\* As getPhaseCycle, the Dynamic balancer shifting as Linear does.
getPhaseCycle_DynamicShifts(balancer, channel, pwmAmount) ==
    IF pwmAmount = 0
    THEN <<0, PCA9685_PWM_FULL>>
    ELSE IF pwmAmount >= PCA9685_PWM_FULL
    THEN <<PCA9685_PWM_FULL, 0>>
    ELSE IF channel = PCA9685_ALLLED_CHANNEL
    THEN getPhaseCycle_Unshifted(pwmAmount)
    ELSE CASE balancer \in {"None", "Count", "Undefined"} ->
                  getPhaseCycle_Unshifted(pwmAmount)
           [] balancer \in {"Linear", "Dynamic"} ->
                  getPhaseCycle_Linear(channel, pwmAmount)

getPhaseCycle(balancer, channel, pwmAmount) ==
    IF pwmAmount = 0
    THEN <<0, PCA9685_PWM_FULL>>
    ELSE IF pwmAmount >= PCA9685_PWM_FULL
    THEN <<PCA9685_PWM_FULL, 0>>
    ELSE IF channel = PCA9685_ALLLED_CHANNEL
    THEN getPhaseCycle_Unshifted(pwmAmount)
    ELSE CASE balancer \in {"None", "Count", "Undefined"} ->
                  getPhaseCycle_Unshifted(pwmAmount)
           [] balancer = "Linear" ->
                  getPhaseCycle_Linear(channel, pwmAmount)
           [] balancer = "Dynamic" ->
                  getPhaseCycle_Unshifted(pwmAmount)

(***************************************************************************)
(* The decode at the end of PCA9685::getChannelPWM: the duty that a        *)
(* read-back (phaseBegin, phaseEnd) pair of uint16_t stands for.           *)
(***************************************************************************)
\* As decodePhaseCycle, testing full ON before full OFF.
decodePhaseCycle_FullOnFirst(phaseBegin, phaseEnd) ==
    IF phaseBegin >= PCA9685_PWM_FULL
    THEN PCA9685_PWM_FULL
    ELSE IF phaseEnd >= PCA9685_PWM_FULL
    THEN 0
    ELSE IF phaseBegin <= phaseEnd
    THEN U16(phaseEnd - phaseBegin)
    ELSE U16((phaseEnd + PCA9685_PWM_FULL) - phaseBegin)

decodePhaseCycle(phaseBegin, phaseEnd) ==
    IF phaseEnd >= PCA9685_PWM_FULL
    THEN 0
    ELSE IF phaseBegin >= PCA9685_PWM_FULL
    THEN PCA9685_PWM_FULL
    ELSE IF phaseBegin <= phaseEnd
    THEN U16(phaseEnd - phaseBegin)
    ELSE U16((phaseEnd + PCA9685_PWM_FULL) - phaseBegin)

(***************************************************************************)
(* Bit operations on bytes.                                                *)
(***************************************************************************)
RECURSIVE BitAnd(_, _)
BitAnd(a, b) ==
    IF a = 0 \/ b = 0
    THEN 0
    ELSE (IF a % 2 = 1 /\ b % 2 = 1 THEN 1 ELSE 0) + 2 * BitAnd(a \div 2, b \div 2)

RECURSIVE BitOr(_, _)
BitOr(a, b) ==
    IF a = 0
    THEN b
    ELSE IF b = 0
    THEN a
    ELSE (IF a % 2 = 1 \/ b % 2 = 1 THEN 1 ELSE 0) + 2 * BitOr(a \div 2, b \div 2)

(***************************************************************************)
(* Floats.  A float is an exact fraction <<numerator, denominator>> in     *)
(* lowest terms with a positive denominator.                               *)
(***************************************************************************)
RECURSIVE GCD(_, _)
GCD(a, b) == IF b = 0 THEN a ELSE GCD(b, a % b)

Abs(x) == IF x < 0 THEN -x ELSE x

\* The float n / d.
Float(n, d) ==
    LET g == GCD(Abs(n), Abs(d))
    IN  IF d < 0 THEN <<(-n) \div g, (-d) \div g>> ELSE <<n \div g, d \div g>>

\* Conversion of an integer to float.
F(n) == <<n, 1>>

FAdd(a, b) ==
    LET l == (a[2] \div GCD(a[2], b[2])) * b[2]
    IN  Float(a[1] * (l \div a[2]) + b[1] * (l \div b[2]), l)

FSub(a, b) == FAdd(a, <<-b[1], b[2]>>)

FMul(a, b) ==
    LET p == Float(a[1], b[2])
        q == Float(b[1], a[2])
    IN  Float(p[1] * q[1], p[2] * q[2])

FDiv(a, b) == FMul(a, Float(b[2], b[1]))

\* roundf: to the nearest integer, halves away from zero.
roundf(a) ==
    IF a[1] >= 0
    THEN (2 * a[1] + a[2]) \div (2 * a[2])
    ELSE -((2 * (-a[1]) + a[2]) \div (2 * a[2]))

\* constrain(amt, low, high)
constrain(amt, low, high) == IF amt < low THEN low ELSE IF amt > high THEN high ELSE amt

\* Conversion of a float to int: towards zero.
truncf(a) == IF a[1] >= 0 THEN a[1] \div a[2] ELSE -((-a[1]) \div a[2])

(***************************************************************************)
(* State.                                                                  *)
(***************************************************************************)
VARIABLES
    \* fields of the PCA9685 object
    i2cAddr,            \* _i2cAddr
    driverMode,         \* _driverMode
    enabledMode,        \* _enabledMode
    disabledMode,       \* _disabledMode
    updateMode,         \* _updateMode
    phaseBalancer,      \* _phaseBalancer
    isProxyAddresser,   \* _isProxyAddresser
    lastI2CError,       \* _lastI2CError
    \* the build
    bufferLength,       \* PCA9685_I2C_BUFFER_LENGTH, the Wire library's buffer size
    \* the call in progress, or the last one
    call,               \* the public operation and the arguments it was called with
    wire,               \* the transport events of that call, in order
    pc,                 \* "idle", "setChannelsPWM" (in its while loop) or "done"
    begChannel,         \* setChannelsPWM's begChannel, as the loop advances it
    numChannels,        \* setChannelsPWM's numChannels, as the loop counts it down
    pwmAmounts,         \* setChannelsPWM's pwmAmounts pointer, as an index into the array
    retVal,             \* the value the last getChannelPWM or decode returned
    \* the phase arithmetic under SpecPhase
    channel,            \* getPhaseCycle's channel argument
    pwmAmount,          \* getPhaseCycle's pwmAmount argument
    phaseBegin,         \* the pair getPhaseCycle produced, or the pair read back
    phaseEnd,
    \* fields of the PCA9685_ServoEval object, and pwmForAngle's argument
    coeff,              \* _coeff, the floats as exact fractions
    isCSpline,          \* _isCSpline
    angle,              \* pwmForAngle's angle argument
    \* the chip at the other end of the transport, under SpecChip
    registers,          \* the chip's registers, by register address
    writeCalls          \* the write calls made so far, in order

deviceVars == <<i2cAddr, driverMode, enabledMode, disabledMode, updateMode,
                isProxyAddresser, lastI2CError>>

modeVars == <<driverMode, enabledMode, disabledMode, updateMode, phaseBalancer>>

loopVars == <<begChannel, numChannels, pwmAmounts>>

busVars == <<bufferLength, call, wire>>

phaseVars == <<channel, pwmAmount, phaseBegin, phaseEnd>>

servoVars == <<coeff, isCSpline, angle>>

chipVars == <<registers, writeCalls>>

vars == <<i2cAddr, driverMode, enabledMode, disabledMode, updateMode, phaseBalancer,
          isProxyAddresser, lastI2CError, bufferLength, call, wire, pc, begChannel,
          numChannels, pwmAmounts, retVal, channel, pwmAmount, phaseBegin, phaseEnd,
          coeff, isCSpline, angle, registers, writeCalls>>

\* The caller's record of a public operation and its arguments.
Call(op, ch, num, values, amount) ==
    [op |-> op, channel |-> ch, numChannels |-> num, pwmAmounts |-> values,
     pwmAmount |-> amount]

NoCall == Call("none", 0, 0, <<>>, 0)

\* The object as the constructor leaves it, on a build with buffer size len.
Constructed(addr, len) ==
    /\ i2cAddr = addr
    /\ driverMode = "Undefined"
    /\ enabledMode = "Undefined"
    /\ disabledMode = "Undefined"
    /\ updateMode = "Undefined"
    /\ isProxyAddresser = FALSE
    /\ lastI2CError = 0
    /\ bufferLength = len
    /\ call = NoCall
    /\ wire = <<>>
    /\ begChannel = 0
    /\ numChannels = 0
    /\ pwmAmounts = 0

\* No PCA9685_ServoEval object is constructed.
NoServoEval ==
    /\ coeff = <<>>
    /\ isCSpline = FALSE
    /\ angle = 0

\* No chip is modelled: what the transport returns is an input.
NoChip ==
    /\ registers = <<>>
    /\ writeCalls = <<>>

(***************************************************************************)
(* SpecPhase: the phase arithmetic.                                        *)
(***************************************************************************)
PwmAmounts == (0 .. MaxPwmAmount) \cup {UINT16_MAX}

ChannelArgs == (PCA9685_MIN_CHANNEL .. PCA9685_MAX_CHANNEL) \cup {PCA9685_ALLLED_CHANNEL}

\* 13-bit register values: 12 bits and the full flag (bit 12).
PhaseLows == (0 .. MaxPhaseEdge)
                 \cup {PCA9685_PWM_MASK - i : i \in 0 .. MaxPhaseEdge}
                 \cup {PCA9685_PWM_FULL \div 2}

PhaseRegs == {full * PCA9685_PWM_FULL + low : full \in {0, 1}, low \in PhaseLows}

InitPhase ==
    /\ Constructed(0, 32)
    /\ NoServoEval
    /\ NoChip
    /\ phaseBalancer \in PhaseBalancers
    /\ retVal = "void"
    /\ \/ /\ pc = "arguments"
          /\ channel \in ChannelArgs
          /\ pwmAmount \in PwmAmounts
          /\ phaseBegin = 0
          /\ phaseEnd = 0
       \/ /\ pc = "readback"
          /\ phaseBalancer = "Undefined"
          /\ channel = 0
          /\ pwmAmount = 0
          /\ phaseBegin \in PhaseRegs
          /\ phaseEnd \in PhaseRegs

\* getPhaseCycle(channel, pwmAmount, &phaseBegin, &phaseEnd)
PhaseEncode ==
    /\ pc = "arguments"
    /\ phaseBegin' = getPhaseCycle(phaseBalancer, channel, pwmAmount)[1]
    /\ phaseEnd' = getPhaseCycle(phaseBalancer, channel, pwmAmount)[2]
    /\ pc' = "encoded"
    /\ UNCHANGED <<deviceVars, phaseBalancer, busVars, loopVars, channel, pwmAmount, retVal>>

\* the decode of getChannelPWM on the pair at hand
PhaseDecode ==
    /\ pc \in {"encoded", "readback"}
    /\ retVal' = decodePhaseCycle(phaseBegin, phaseEnd)
    /\ pc' = IF pc = "encoded" THEN "decoded" ELSE "readback_decoded"
    /\ UNCHANGED <<deviceVars, phaseBalancer, busVars, loopVars, phaseVars>>

NextPhase ==
    \/ PhaseEncode /\ UNCHANGED <<servoVars, chipVars>>
    \/ PhaseDecode /\ UNCHANGED <<servoVars, chipVars>>

SpecPhase == InitPhase /\ [][NextPhase]_vars

(***************************************************************************)
(* Properties of the phase arithmetic, under SpecPhase.                    *)
(***************************************************************************)
NamedChannels == PCA9685_MIN_CHANNEL .. PCA9685_MAX_CHANNEL

\* C1: under the None balancer, for every channel 0..15 and every amount in
\* 1..4095, decoding the pair getPhaseCycle produced returns the amount.
C1_RoundTripNone ==
    (/\ pc = "decoded"
     /\ phaseBalancer = "None"
     /\ channel \in NamedChannels
     /\ pwmAmount \in 1 .. 4095)
        => retVal = pwmAmount

C1_Witness ==
    /\ pc = "decoded"
    /\ phaseBalancer = "None"
    /\ channel = 15
    /\ pwmAmount = 4095
    /\ phaseBegin = 0
    /\ phaseEnd = 4095
    /\ retVal = 4095

\* C2: for every channel 0..15 and the ALLLED channel, and every phase
\* balancer, amount 0 gives the pair (0, 4096) and every amount >= 4096 gives
\* (4096, 0).
C2_Sentinels ==
    pc \in {"encoded", "decoded"}
        => /\ pwmAmount = 0 => (phaseBegin = 0 /\ phaseEnd = 4096)
           /\ pwmAmount >= 4096 => (phaseBegin = 4096 /\ phaseEnd = 0)

C2_Witness ==
    /\ pc = "encoded"
    /\ channel = PCA9685_ALLLED_CHANNEL
    /\ phaseBalancer = "Linear"
    /\ pwmAmount = UINT16_MAX
    /\ phaseBegin = 4096
    /\ phaseEnd = 0

\* C3: under the Linear balancer, for every channel 0..15 and every amount d
\* in 1..4095, (phaseEnd - phaseBegin) mod 4096 = d, clamped or not.
C3_LinearWidth ==
    (/\ pc \in {"encoded", "decoded"}
     /\ phaseBalancer = "Linear"
     /\ channel \in NamedChannels
     /\ pwmAmount \in 1 .. 4095)
        => (phaseEnd - phaseBegin) % 4096 = pwmAmount

\* Channel 15 with amount 4000: 3840 - 2000 + 4000 is clamped to 4095.
C3_Witness ==
    /\ pc = "encoded"
    /\ phaseBalancer = "Linear"
    /\ channel = 15
    /\ pwmAmount = 4000
    /\ phaseEnd = 4095
    /\ phaseBegin = 95

FullFlag(w) == (w \div 4096) % 2 = 1

\* C4: the decode of a read-back pair of 13-bit values is 0 if phaseEnd's
\* full flag is set, else 4096 if phaseBegin's full flag is set, else
\* phaseEnd - phaseBegin if phaseBegin <= phaseEnd, else
\* (phaseEnd + 4096) - phaseBegin.
C4_DecodeReference ==
    pc = "readback_decoded"
        => retVal = IF FullFlag(phaseEnd) THEN 0
                    ELSE IF FullFlag(phaseBegin) THEN 4096
                    ELSE IF phaseBegin <= phaseEnd THEN phaseEnd - phaseBegin
                    ELSE (phaseEnd + 4096) - phaseBegin

\* Both full flags set: full OFF wins.
C4_Witness ==
    /\ pc = "readback_decoded"
    /\ FullFlag(phaseEnd)
    /\ FullFlag(phaseBegin)
    /\ retVal = 0

\* C14: for every amount d in 1..4095, getPhaseCycle gives phaseBegin = 0
\* and phaseEnd = d whenever the channel is the ALLLED channel (under every
\* balancer, Linear included) or the balancer is None, Dynamic or undefined
\* (for every channel 0..15); and under Dynamic the pair is, for every
\* input, the one None gives.
C14_ShiftOnlyLinearNamed ==
    pc \in {"encoded", "decoded"}
        => /\ (/\ pwmAmount \in 1 .. 4095
               /\ \/ channel = PCA9685_ALLLED_CHANNEL
                  \/ phaseBalancer \in {"None", "Dynamic", "Undefined"})
                  => (phaseBegin = 0 /\ phaseEnd = pwmAmount)
           /\ phaseBalancer = "Dynamic"
                  => <<phaseBegin, phaseEnd>> = getPhaseCycle("None", channel, pwmAmount)

\* The ALLLED channel under Linear: no shift.
C14_Witness ==
    /\ pc = "encoded"
    /\ phaseBalancer = "Linear"
    /\ channel = PCA9685_ALLLED_CHANNEL
    /\ pwmAmount = 4000
    /\ phaseBegin = 0
    /\ phaseEnd = 4000

\* C18: under Linear, for every channel c in 0..15 and amount d in 1..4095,
\* 0 <= phaseBegin <= phaseEnd <= 4095 and phaseBegin = min(max(0, 256c -
\* floor(d / 2)), 4095 - d); the 16-bit results are the unbounded ones: the
\* closing subtraction phaseEnd - d does not go below 0.
C18_LinearWindow ==
    (/\ pc \in {"encoded", "decoded"}
     /\ phaseBalancer = "Linear"
     /\ channel \in NamedChannels
     /\ pwmAmount \in 1 .. 4095)
        => LET shifted == Max(0, (256 * channel) - (pwmAmount \div 2))
           IN  /\ 0 <= phaseBegin
               /\ phaseBegin <= phaseEnd
               /\ phaseEnd <= 4095
               /\ phaseBegin = Min(shifted, 4095 - pwmAmount)
               /\ phaseEnd = Min(4095, shifted + pwmAmount)
               /\ phaseEnd - pwmAmount = phaseBegin

\* Channel 15 with amount 4095: the window is the whole range.
C18_Witness ==
    /\ pc = "encoded"
    /\ phaseBalancer = "Linear"
    /\ channel = 15
    /\ pwmAmount = 4095
    /\ phaseBegin = 0
    /\ phaseEnd = 4095

(***************************************************************************)
(* Spec: the device object over the i2c transport.                         *)
(*                                                                         *)
(* The transport is the Wire library: beginTransmission, write,            *)
(* endTransmission (which returns an error code), requestFrom (which       *)
(* returns the number of bytes received) and read.  Each is logged on      *)
(* wire as <<name, value>>; the codes and counts the transport returns and *)
(* the bytes it delivers are inputs of the actions.                        *)
(***************************************************************************)
\* i2cWire_beginTransmission(addr)
i2cWire_beginTransmission(addr) == <<"beginTransmission", addr>>

\* i2cWire_write(data)
i2cWire_write(data) == <<"write", U8(data)>>

\* i2cWire_endTransmission(), the transport returning code
i2cWire_endTransmission(code) == <<"endTransmission", code>>

\* i2cWire_requestFrom(addr, len), the transport returning bytesRead
i2cWire_requestFrom(addr, len, bytesRead) == <<"requestFrom", <<addr, len, bytesRead>>>>

\* i2cWire_read(), the transport delivering data
i2cWire_read(data) == <<"read", data>>

\* As writeChannelBegin, the register address advancing one byte per channel.
writeChannelBegin_NoStride(addr, ch) ==
    LET regAddress == IF ch # PCA9685_ALLLED_CHANNEL
                      THEN U8(PCA9685_LED0_REG + ch)
                      ELSE PCA9685_ALLLED_REG
    IN  <<i2cWire_beginTransmission(addr), i2cWire_write(regAddress)>>

\* writeChannelBegin(channel): opens the transaction and writes the register address.
writeChannelBegin(addr, ch) ==
    LET regAddress == IF ch # PCA9685_ALLLED_CHANNEL
                      THEN U8(PCA9685_LED0_REG + (ch * 4))
                      ELSE PCA9685_ALLLED_REG
    IN  <<i2cWire_beginTransmission(addr), i2cWire_write(regAddress)>>

\* As writeChannelPWM, phaseEnd written before phaseBegin.
writeChannelPWM_EndFirst(phase) ==
    <<i2cWire_write(lowByte(phase[2])), i2cWire_write(highByte(phase[2])),
      i2cWire_write(lowByte(phase[1])), i2cWire_write(highByte(phase[1]))>>

\* writeChannelPWM(phaseBegin, phaseEnd), the pair given as a tuple.
writeChannelPWM(phase) ==
    <<i2cWire_write(lowByte(phase[1])), i2cWire_write(highByte(phase[1])),
      i2cWire_write(lowByte(phase[2])), i2cWire_write(highByte(phase[2]))>>

\* writeChannelEnd(), the transport returning code.
writeChannelEnd(code) == <<i2cWire_endTransmission(code)>>

\* As writeRegister, the transaction left open.
writeRegister_NoEnd(addr, regAddress, value, code) ==
    <<i2cWire_beginTransmission(addr), i2cWire_write(regAddress), i2cWire_write(value)>>

\* writeRegister(regAddress, value), the transport returning code.
writeRegister(addr, regAddress, value, code) ==
    <<i2cWire_beginTransmission(addr), i2cWire_write(regAddress),
      i2cWire_write(value), i2cWire_endTransmission(code)>>

\* byteValue & ~mask
BitClear(byteValue, mask) == BitAnd(byteValue, 255 - mask)

\* readRegister(regAddress): the transport returns code to the address write
\* and bytesRead to the request, and delivers data.  The events, the value
\* returned and _lastI2CError on return.
readRegister(addr, regAddress, code, bytesRead, data) ==
    LET addressed == <<i2cWire_beginTransmission(addr), i2cWire_write(regAddress),
                       i2cWire_endTransmission(code)>>
        requested == <<i2cWire_requestFrom(addr, 1, bytesRead)>>
    IN  IF code # 0
        THEN [events |-> addressed, retVal |-> 0, error |-> code]
        ELSE IF bytesRead # 1
        THEN [events |-> addressed \o requested
                             \o [i \in 1 .. bytesRead |-> i2cWire_read(data)],
              retVal |-> 0, error |-> 4]
        ELSE [events |-> addressed \o requested \o <<i2cWire_read(data)>>,
              retVal |-> data, error |-> code]

\* getMode2Value() for the given mode fields.
getMode2Value(dm, em, xm, um) ==
    LET v0 == 0
        v1 == IF dm = "TotemPole" THEN BitOr(v0, PCA9685_MODE2_OUTDRV_TPOLE) ELSE v0
        v2 == IF em = "Inverted" THEN BitOr(v1, PCA9685_MODE2_INVRT) ELSE v1
        v3 == IF xm = "High" THEN BitOr(v2, PCA9685_MODE2_OUTNE_TPHIGH)
              ELSE IF xm = "Floating" THEN BitOr(v2, PCA9685_MODE2_OUTNE_HIGHZ)
              ELSE v2
    IN  IF um = "AfterAck" THEN BitOr(v3, PCA9685_MODE2_OCH_ONACK) ELSE v3

\* As writeChannels, the pointer into pwmAmounts never advancing.
RECURSIVE writeChannels_FirstAmount(_, _, _, _, _)
writeChannels_FirstAmount(balancer, ch, values, at, n) ==
    IF n <= 0
    THEN <<>>
    ELSE writeChannelPWM(getPhaseCycle(balancer, ch, values[at + 1]))
             \o writeChannels_FirstAmount(balancer, ch + 1, values, at, n - 1)

\* The inner loop of setChannelsPWM: n channels from ch on, their amounts read
\* from values at index at on.
RECURSIVE writeChannels(_, _, _, _, _)
writeChannels(balancer, ch, values, at, n) ==
    IF n <= 0
    THEN <<>>
    ELSE writeChannelPWM(getPhaseCycle(balancer, ch, values[at + 1]))
             \o writeChannels(balancer, ch + 1, values, at + 1, n - 1)

\* As maxChannelsOf, eight bytes of the buffer counted per channel.
maxChannelsOf_EightPerChannel(num, len) == Min(num, (len - 1) \div 8)

\* As maxChannelsOf, every remaining channel in one transaction.
maxChannelsOf_Unbounded(num, len) == num

\* The channels one transaction of setChannelsPWM carries.
maxChannelsOf(num, len) == Min(num, (len - 1) \div 4)

\* As clipNumChannels, clipping against the last channel index.
clipNumChannels_OffByOne(beg, num) ==
    IF beg + num > 15 THEN num - ((beg + num) - 15) ELSE num

\* setChannelsPWM's clip of numChannels to the channels from begChannel on.
clipNumChannels(beg, num) ==
    IF beg + num > 16 THEN num - ((beg + num) - 16) ELSE num

\* As afterWriteChannelEnd, going on whatever the transaction returned.
afterWriteChannelEnd_GoOn(error) == "setChannelsPWM"

\* setChannelsPWM after writeChannelEnd: it returns if _lastI2CError is set.
afterWriteChannelEnd(error) == IF error # 0 THEN "done" ELSE "setChannelsPWM"

\* As drainReads, the count decremented before it is tested.
drainReads_PreDecrement(bytesRead, data) ==
    [i \in 1 .. (bytesRead - 1) |-> i2cWire_read(data[((i - 1) % 4) + 1])]

\* getChannelPWM on a short read: while (bytesRead-- > 0) i2cWire_read().
drainReads(bytesRead, data) ==
    [i \in 1 .. bytesRead |-> i2cWire_read(data[((i - 1) % 4) + 1])]

(***************************************************************************)
(* Inputs.                                                                 *)
(***************************************************************************)
\* Codes endTransmission returns range over 0 .. MaxErrorCode.
MaxErrorCode == 2
\* Byte counts requestFrom returns range over 0 .. MaxBytesRead.
MaxBytesRead == 5
\* numChannels arguments range over -1 .. MaxNumChannels.
MaxNumChannels == 20
\* Buffer sizes 4p + 1 for p in 1 .. MaxWholeChannels, and the AVR Wire
\* library's 32.
MaxWholeChannels == 2
\* The pwmAmounts arrays: MaxArrayShift + 1 rotations of the sample amounts.
MaxArrayShift == 0

ErrorCodes == 0 .. MaxErrorCode

BytesReadCounts == 0 .. MaxBytesRead

BufferLengths == {4 * p + 1 : p \in 1 .. MaxWholeChannels} \cup {32}

I2CAddresses == {21}

\* Channel arguments: every channel, the ALLLED value and one above the range.
AnyChannelArgs == PCA9685_ALLLED_CHANNEL .. (PCA9685_MAX_CHANNEL + 1)

NumChannelsArgs == -1 .. MaxNumChannels

PwmSamples == <<0, 1, 2048, 4000, 4095, 4096, UINT16_MAX>>

PwmSampleSet == {PwmSamples[i] : i \in 1 .. Len(PwmSamples)}

PwmArrays ==
    {[i \in 1 .. (MaxNumChannels + 1) |->
         PwmSamples[((i + 3 * shift) % Len(PwmSamples)) + 1]] : shift \in 0 .. MaxArrayShift}

\* init's arguments; assert() rules out open-drain with disabled-high.
InitArgs ==
    {<<"OpenDrain", "Inverted", "Low", "AfterStop", "None">>,
     <<"OpenDrain", "Normal", "Floating", "AfterStop", "Linear">>,
     <<"TotemPole", "Normal", "High", "AfterAck", "Dynamic">>}

Init ==
    /\ \E addr \in I2CAddresses, len \in BufferLengths : Constructed(addr, len)
    /\ NoServoEval
    /\ NoChip
    /\ phaseBalancer = "Undefined"
    /\ pc = "idle"
    /\ retVal = "void"
    /\ channel = 0
    /\ pwmAmount = 0
    /\ phaseBegin = 0
    /\ phaseEnd = 0

\* The caller's record of init: its arguments, and the balancer the device
\* had when it was called.
InitCall(dm, em, xm, um, pb) ==
    Call("init", 0, 0, <<dm, em, xm, um, pb, phaseBalancer>>, 0)

\* As init, without the return on _isProxyAddresser.
init_IgnoresProxy(dm, em, xm, um, pb, code1, code2) ==
    /\ pc = "idle"
    /\ pc' = "done"
    /\ call' = InitCall(dm, em, xm, um, pb)
    /\ retVal' = "void"
    /\ LET addr == BitOr(PCA9685_I2C_BASE_MODULE_ADDRESS,
                         BitAnd(i2cAddr, PCA9685_I2C_BASE_MODULE_ADRMASK))
       IN  /\ i2cAddr' = addr
           /\ driverMode' = dm
           /\ enabledMode' = em
           /\ disabledMode' = xm
           /\ updateMode' = um
           /\ phaseBalancer' = pb
           /\ wire' = writeRegister(addr, PCA9685_MODE1_REG,
                                    BitOr(PCA9685_MODE1_RESTART, PCA9685_MODE1_AUTOINC),
                                    code1)
                        \o writeRegister(addr, PCA9685_MODE2_REG,
                                         getMode2Value(dm, em, xm, um), code2)
           /\ lastI2CError' = code2
    /\ UNCHANGED <<isProxyAddresser, bufferLength, loopVars, phaseVars>>

\* init(driverMode, enabledMode, disabledMode, updateMode, phaseBalancer)
init(dm, em, xm, um, pb, code1, code2) ==
    /\ pc = "idle"
    /\ pc' = "done"
    /\ call' = InitCall(dm, em, xm, um, pb)
    /\ retVal' = "void"
    /\ IF isProxyAddresser
       THEN /\ wire' = <<>>
            /\ UNCHANGED <<i2cAddr, modeVars, lastI2CError>>
       ELSE LET addr == BitOr(PCA9685_I2C_BASE_MODULE_ADDRESS,
                              BitAnd(i2cAddr, PCA9685_I2C_BASE_MODULE_ADRMASK))
            IN  /\ i2cAddr' = addr
                /\ driverMode' = dm
                /\ enabledMode' = em
                /\ disabledMode' = xm
                /\ updateMode' = um
                /\ phaseBalancer' = pb
                /\ wire' = writeRegister(addr, PCA9685_MODE1_REG,
                                         BitOr(PCA9685_MODE1_RESTART, PCA9685_MODE1_AUTOINC),
                                         code1)
                             \o writeRegister(addr, PCA9685_MODE2_REG,
                                              getMode2Value(dm, em, xm, um), code2)
                /\ lastI2CError' = code2
    /\ UNCHANGED <<isProxyAddresser, bufferLength, loopVars, phaseVars>>

\* initAsProxyAddresser()
initAsProxyAddresser ==
    /\ pc = "idle"
    /\ pc' = "done"
    /\ call' = Call("initAsProxyAddresser", 0, 0, <<>>, 0)
    /\ retVal' = "void"
    /\ wire' = <<>>
    /\ IF driverMode # "Undefined"
       THEN UNCHANGED <<i2cAddr, isProxyAddresser>>
       ELSE /\ i2cAddr' = BitOr(PCA9685_I2C_BASE_PROXY_ADDRESS,
                                BitAnd(i2cAddr, PCA9685_I2C_BASE_PROXY_ADRMASK))
            /\ isProxyAddresser' = TRUE
    /\ UNCHANGED <<modeVars, lastI2CError, bufferLength, loopVars, phaseVars>>

\* A whole single-channel write: writeChannelBegin, writeChannelPWM, writeChannelEnd.
writeChannel(ch, phase, code) ==
    /\ wire' = writeChannelBegin(i2cAddr, ch) \o writeChannelPWM(phase) \o writeChannelEnd(code)
    /\ lastI2CError' = code

\* As setChannelOn, the ALLLED channel let through.
setChannelOn_AcceptsALLLED(ch, code) ==
    /\ pc = "idle"
    /\ pc' = "done"
    /\ call' = Call("setChannelOn", ch, 0, <<>>, 0)
    /\ retVal' = "void"
    /\ IF ch < PCA9685_ALLLED_CHANNEL \/ ch > 15
       THEN /\ wire' = <<>>
            /\ UNCHANGED lastI2CError
       ELSE writeChannel(ch, <<PCA9685_PWM_FULL, 0>>, code)
    /\ UNCHANGED <<i2cAddr, modeVars, isProxyAddresser, bufferLength, loopVars, phaseVars>>

\* setChannelOn(channel)
setChannelOn(ch, code) ==
    /\ pc = "idle"
    /\ pc' = "done"
    /\ call' = Call("setChannelOn", ch, 0, <<>>, 0)
    /\ retVal' = "void"
    /\ IF ch < 0 \/ ch > 15
       THEN /\ wire' = <<>>
            /\ UNCHANGED lastI2CError
       ELSE writeChannel(ch, <<PCA9685_PWM_FULL, 0>>, code)
    /\ UNCHANGED <<i2cAddr, modeVars, isProxyAddresser, bufferLength, loopVars, phaseVars>>

\* setChannelOff(channel)
setChannelOff(ch, code) ==
    /\ pc = "idle"
    /\ pc' = "done"
    /\ call' = Call("setChannelOff", ch, 0, <<>>, 0)
    /\ retVal' = "void"
    /\ IF ch < 0 \/ ch > 15
       THEN /\ wire' = <<>>
            /\ UNCHANGED lastI2CError
       ELSE writeChannel(ch, <<0, PCA9685_PWM_FULL>>, code)
    /\ UNCHANGED <<i2cAddr, modeVars, isProxyAddresser, bufferLength, loopVars, phaseVars>>

\* setChannelPWM(channel, pwmAmount)
setChannelPWM(ch, amount, code) ==
    /\ pc = "idle"
    /\ pc' = "done"
    /\ call' = Call("setChannelPWM", ch, 0, <<>>, amount)
    /\ retVal' = "void"
    /\ IF ch < 0 \/ ch > 15
       THEN /\ wire' = <<>>
            /\ UNCHANGED lastI2CError
       ELSE writeChannel(ch, getPhaseCycle(phaseBalancer, ch, amount), code)
    /\ UNCHANGED <<i2cAddr, modeVars, isProxyAddresser, bufferLength, loopVars, phaseVars>>

\* setAllChannelsPWM(pwmAmount)
setAllChannelsPWM(amount, code) ==
    /\ pc = "idle"
    /\ pc' = "done"
    /\ call' = Call("setAllChannelsPWM", PCA9685_ALLLED_CHANNEL, 0, <<>>, amount)
    /\ retVal' = "void"
    /\ writeChannel(PCA9685_ALLLED_CHANNEL,
                    getPhaseCycle(phaseBalancer, PCA9685_ALLLED_CHANNEL, amount), code)
    /\ UNCHANGED <<i2cAddr, modeVars, isProxyAddresser, bufferLength, loopVars, phaseVars>>

\* setChannelsPWM(begChannel, numChannels, pwmAmounts): the entry, up to the
\* while loop.
setChannelsPWM(beg, num, values) ==
    /\ pc = "idle"
    /\ call' = Call("setChannelsPWM", beg, num, values, 0)
    /\ retVal' = "void"
    /\ wire' = <<>>
    /\ IF beg < 0 \/ beg > 15 \/ num < 0
       THEN /\ pc' = "done"
            /\ UNCHANGED loopVars
       ELSE /\ begChannel' = beg
            /\ numChannels' = clipNumChannels(beg, num)
            /\ pwmAmounts' = 0
            /\ pc' = "setChannelsPWM"
    /\ UNCHANGED <<deviceVars, phaseBalancer, bufferLength, phaseVars>>

\* One turn of the while loop of setChannelsPWM: one transaction.
setChannelsPWM_write(code) ==
    /\ pc = "setChannelsPWM"
    /\ numChannels > 0
    /\ LET maxChannels == maxChannelsOf(numChannels, bufferLength)
       IN  /\ wire' = wire \o writeChannelBegin(i2cAddr, begChannel)
                           \o writeChannels(phaseBalancer, begChannel, call.pwmAmounts,
                                            pwmAmounts, maxChannels)
                           \o writeChannelEnd(code)
           /\ begChannel' = begChannel + Max(maxChannels, 0)
           /\ pwmAmounts' = pwmAmounts + Max(maxChannels, 0)
           /\ numChannels' = numChannels - Max(maxChannels, 0)
    /\ lastI2CError' = code
    /\ pc' = afterWriteChannelEnd(code)
    /\ UNCHANGED <<i2cAddr, modeVars, isProxyAddresser, bufferLength, call, retVal, phaseVars>>

\* The while loop of setChannelsPWM ends: the call returns.
setChannelsPWM_return ==
    /\ pc = "setChannelsPWM"
    /\ numChannels <= 0
    /\ pc' = "done"
    /\ UNCHANGED <<deviceVars, phaseBalancer, busVars, loopVars, retVal, phaseVars>>

\* Control is back with the caller, which keeps nothing of the call but the
\* object: the record of the call, its events and its locals are dropped.
returned ==
    /\ pc = "done"
    /\ pc' = "idle"
    /\ call' = NoCall
    /\ wire' = <<>>
    /\ retVal' = "void"
    /\ begChannel' = 0
    /\ numChannels' = 0
    /\ pwmAmounts' = 0
    /\ UNCHANGED <<deviceVars, phaseBalancer, bufferLength, phaseVars>>

\* The bytes the transport delivers for a register pair, low byte first.
phaseBytes(pb, pe) == <<lowByte(pb), highByte(pb), lowByte(pe), highByte(pe)>>

\* As getChannelPWM, a byte-count mismatch leaving _lastI2CError as the address
\* write set it.
getChannelPWM_MismatchUnrecorded(ch, code, bytesRead, data) ==
    /\ pc = "idle"
    /\ pc' = "done"
    /\ call' = Call("getChannelPWM", ch, 0, <<>>, 0)
    /\ IF ch < 0 \/ ch > 15 \/ isProxyAddresser
       THEN /\ wire' = <<>>
            /\ retVal' = 0
            /\ UNCHANGED lastI2CError
       ELSE LET regAddress == U8(PCA9685_LED0_REG + (ch * 4))
                addressed == <<i2cWire_beginTransmission(i2cAddr), i2cWire_write(regAddress),
                               i2cWire_endTransmission(code)>>
                requested == <<i2cWire_requestFrom(i2cAddr, 4, bytesRead)>>
                pb == data[1] + data[2] * 256
                pe == data[3] + data[4] * 256
            IN  IF code # 0
                THEN /\ wire' = addressed
                     /\ lastI2CError' = code
                     /\ retVal' = 0
                ELSE IF bytesRead # 4
                THEN /\ wire' = addressed \o requested
                                   \o drainReads(bytesRead, data)
                     /\ lastI2CError' = code
                     /\ retVal' = 0
                ELSE /\ wire' = addressed \o requested
                                   \o [i \in 1 .. 4 |-> i2cWire_read(data[i])]
                     /\ lastI2CError' = code
                     /\ retVal' = decodePhaseCycle(pb, pe)
    /\ UNCHANGED <<i2cAddr, modeVars, isProxyAddresser, bufferLength, loopVars, phaseVars>>

\* getChannelPWM(channel): the transport returns code to the address write and
\* bytesRead to the request, and delivers data.
getChannelPWM(ch, code, bytesRead, data) ==
    /\ pc = "idle"
    /\ pc' = "done"
    /\ call' = Call("getChannelPWM", ch, 0, <<>>, 0)
    /\ IF ch < 0 \/ ch > 15 \/ isProxyAddresser
       THEN /\ wire' = <<>>
            /\ retVal' = 0
            /\ UNCHANGED lastI2CError
       ELSE LET regAddress == U8(PCA9685_LED0_REG + (ch * 4))
                addressed == <<i2cWire_beginTransmission(i2cAddr), i2cWire_write(regAddress),
                               i2cWire_endTransmission(code)>>
                requested == <<i2cWire_requestFrom(i2cAddr, 4, bytesRead)>>
                pb == data[1] + data[2] * 256
                pe == data[3] + data[4] * 256
            IN  IF code # 0
                THEN /\ wire' = addressed
                     /\ lastI2CError' = code
                     /\ retVal' = 0
                ELSE IF bytesRead # 4
                THEN /\ wire' = addressed \o requested
                                   \o drainReads(bytesRead, data)
                     /\ lastI2CError' = 4
                     /\ retVal' = 0
                ELSE /\ wire' = addressed \o requested
                                   \o [i \in 1 .. 4 |-> i2cWire_read(data[i])]
                     /\ lastI2CError' = code
                     /\ retVal' = decodePhaseCycle(pb, pe)
    /\ UNCHANGED <<i2cAddr, modeVars, isProxyAddresser, bufferLength, loopVars, phaseVars>>

\* setPWMFrequency's preScalerVal for a pwmFrequency above 0.
preScalerValOf(pwmFrequency) ==
    LET preScalerVal == truncf(FSub(FDiv(F(25000000), FMul(F(4096), F(pwmFrequency))), F(1)))
    IN  IF preScalerVal > 255 THEN 255 ELSE IF preScalerVal < 3 THEN 3 ELSE preScalerVal

\* setPWMFrequency(pwmFrequency): the transport answers the read of MODE1
\* with code0, bytesRead and data, and the three writes with code1..code3.
setPWMFrequency(pwmFrequency, code0, bytesRead, data, code1, code2, code3) ==
    /\ pc = "idle"
    /\ pc' = "done"
    /\ call' = Call("setPWMFrequency", 0, 0, <<>>, pwmFrequency)
    /\ retVal' = "void"
    /\ IF pwmFrequency < 0 \/ isProxyAddresser
       THEN /\ wire' = <<>>
            /\ UNCHANGED lastI2CError
       ELSE LET read == readRegister(i2cAddr, PCA9685_MODE1_REG, code0, bytesRead, data)
                asleep == BitOr(BitClear(read.retVal, PCA9685_MODE1_RESTART),
                                PCA9685_MODE1_SLEEP)
                awake == BitOr(BitClear(asleep, PCA9685_MODE1_SLEEP), PCA9685_MODE1_RESTART)
            IN  /\ wire' = read.events
                              \o writeRegister(i2cAddr, PCA9685_MODE1_REG, asleep, code1)
                              \o writeRegister(i2cAddr, PCA9685_PRESCALE_REG,
                                               U8(preScalerValOf(pwmFrequency)), code2)
                              \o writeRegister(i2cAddr, PCA9685_MODE1_REG, awake, code3)
                /\ lastI2CError' = code3
    /\ UNCHANGED <<i2cAddr, modeVars, isProxyAddresser, bufferLength, loopVars, phaseVars>>

\* enableExtClockLine()
enableExtClockLine(code0, bytesRead, data, code1, code2, code3) ==
    /\ pc = "idle"
    /\ pc' = "done"
    /\ call' = Call("enableExtClockLine", 0, 0, <<>>, 0)
    /\ retVal' = "void"
    /\ LET read == readRegister(i2cAddr, PCA9685_MODE1_REG, code0, bytesRead, data)
           asleep == BitOr(BitClear(read.retVal, PCA9685_MODE1_RESTART), PCA9685_MODE1_SLEEP)
           clocked == BitOr(asleep, PCA9685_MODE1_EXTCLK)
           awake == BitOr(BitClear(clocked, PCA9685_MODE1_SLEEP), PCA9685_MODE1_RESTART)
       IN  /\ wire' = read.events
                         \o writeRegister(i2cAddr, PCA9685_MODE1_REG, asleep, code1)
                         \o writeRegister(i2cAddr, PCA9685_MODE1_REG, clocked, code2)
                         \o writeRegister(i2cAddr, PCA9685_MODE1_REG, awake, code3)
           /\ lastI2CError' = code3
    /\ UNCHANGED <<i2cAddr, modeVars, isProxyAddresser, bufferLength, loopVars, phaseVars>>

\* The four addresses a device can be made to answer to: the register that
\* holds the address, the MODE1 bit that enables it, and the operations.
Addresses ==
    [AllCall |-> [reg |-> PCA9685_ALLCALL_REG, bit |-> PCA9685_MODE1_ALLCALL,
                  enable |-> "enableAllCallAddress", disable |-> "disableAllCallAddress"],
     Sub1 |-> [reg |-> PCA9685_SUBADR1_REG, bit |-> PCA9685_MODE1_SUBADR1,
               enable |-> "enableSub1Address", disable |-> "disableSub1Address"],
     Sub2 |-> [reg |-> PCA9685_SUBADR2_REG, bit |-> PCA9685_MODE1_SUBADR2,
               enable |-> "enableSub2Address", disable |-> "disableSub2Address"],
     Sub3 |-> [reg |-> PCA9685_SUBADR3_REG, bit |-> PCA9685_MODE1_SUBADR3,
               enable |-> "enableSub3Address", disable |-> "disableSub3Address"]]

\* enableAllCallAddress(i2cAddressAllCall), enableSub1Address(i2cAddressSub1),
\* enableSub2Address, enableSub3Address: which names the one.
enableAddress(which, i2cAddressArg, code1, code0, bytesRead, data, code2) ==
    /\ pc = "idle"
    /\ pc' = "done"
    /\ call' = Call(Addresses[which].enable, 0, 0, <<i2cAddressArg>>, 0)
    /\ retVal' = "void"
    /\ IF isProxyAddresser
       THEN /\ wire' = <<>>
            /\ UNCHANGED lastI2CError
       ELSE LET i2cAddress == BitOr(PCA9685_I2C_BASE_PROXY_ADDRESS,
                                    BitAnd(i2cAddressArg, PCA9685_I2C_BASE_PROXY_ADRMASK))
                read == readRegister(i2cAddr, PCA9685_MODE1_REG, code0, bytesRead, data)
            IN  /\ wire' = writeRegister(i2cAddr, Addresses[which].reg, i2cAddress, code1)
                              \o read.events
                              \o writeRegister(i2cAddr, PCA9685_MODE1_REG,
                                               BitOr(read.retVal, Addresses[which].bit), code2)
                /\ lastI2CError' = code2
    /\ UNCHANGED <<i2cAddr, modeVars, isProxyAddresser, bufferLength, loopVars, phaseVars>>

\* disableAllCallAddress(), disableSub1Address(), disableSub2Address(),
\* disableSub3Address(): which names the one.
disableAddress(which, code0, bytesRead, data, code1) ==
    /\ pc = "idle"
    /\ pc' = "done"
    /\ call' = Call(Addresses[which].disable, 0, 0, <<>>, 0)
    /\ retVal' = "void"
    /\ IF isProxyAddresser
       THEN /\ wire' = <<>>
            /\ UNCHANGED lastI2CError
       ELSE LET read == readRegister(i2cAddr, PCA9685_MODE1_REG, code0, bytesRead, data)
            IN  /\ wire' = read.events
                              \o writeRegister(i2cAddr, PCA9685_MODE1_REG,
                                               BitClear(read.retVal, Addresses[which].bit),
                                               code1)
                /\ lastI2CError' = code1
    /\ UNCHANGED <<i2cAddr, modeVars, isProxyAddresser, bufferLength, loopVars, phaseVars>>

\* resetDevices(): the software reset, sent to address 0.
resetDevices(code) ==
    /\ pc = "idle"
    /\ pc' = "done"
    /\ call' = Call("resetDevices", 0, 0, <<>>, 0)
    /\ retVal' = "void"
    /\ wire' = <<i2cWire_beginTransmission(0), i2cWire_write(PCA9685_SW_RESET),
                 i2cWire_endTransmission(code)>>
    /\ lastI2CError' = code
    /\ UNCHANGED <<i2cAddr, modeVars, isProxyAddresser, bufferLength, loopVars, phaseVars>>

\* Values of MODE1 the chip may deliver: as init wrote it with the restart
\* done, and with the sleep, all-call and restart bits set.
Mode1Bytes == {PCA9685_MODE1_AUTOINC, 177}

\* pwmFrequency arguments (in Hz): a negative one, the servo frequency, and
\* one above the chip's range.
PwmFrequencies == {-1, 50, 1600}

\* Address arguments of the enable operations.
AddressArgs == {113}

\* Register pairs the chip may hold when read back.
ReadbackPairs ==
    {<<0, PCA9685_PWM_FULL>>, <<PCA9685_PWM_FULL, 0>>, <<PCA9685_PWM_FULL, PCA9685_PWM_FULL>>,
     <<0, 1>>, <<95, 4095>>, <<3840, 255>>, <<2048, 2048>>}

\* The caller, idle, calls an operation with some arguments, and the transport
\* answers as it may.
Next ==
    \/ /\ pc = "idle"
       /\ \E a \in InitArgs, code1, code2 \in ErrorCodes :
              init(a[1], a[2], a[3], a[4], a[5], code1, code2)
       /\ UNCHANGED <<servoVars, chipVars>>
    \/ initAsProxyAddresser /\ UNCHANGED <<servoVars, chipVars>>
    \/ /\ pc = "idle"
       /\ \E ch \in AnyChannelArgs, code \in ErrorCodes : setChannelOn(ch, code)
       /\ UNCHANGED <<servoVars, chipVars>>
    \/ /\ pc = "idle"
       /\ \E ch \in AnyChannelArgs, code \in ErrorCodes : setChannelOff(ch, code)
       /\ UNCHANGED <<servoVars, chipVars>>
    \/ /\ pc = "idle"
       /\ \E ch \in AnyChannelArgs, amount \in PwmSampleSet, code \in ErrorCodes :
              setChannelPWM(ch, amount, code)
       /\ UNCHANGED <<servoVars, chipVars>>
    \/ /\ pc = "idle"
       /\ \E amount \in PwmSampleSet, code \in ErrorCodes : setAllChannelsPWM(amount, code)
       /\ UNCHANGED <<servoVars, chipVars>>
    \/ /\ pc = "idle"
       /\ \E beg \in AnyChannelArgs, num \in NumChannelsArgs, values \in PwmArrays :
              setChannelsPWM(beg, num, values)
       /\ UNCHANGED <<servoVars, chipVars>>
    \/ /\ pc = "setChannelsPWM"
       /\ \E code \in ErrorCodes : setChannelsPWM_write(code)
       /\ UNCHANGED <<servoVars, chipVars>>
    \/ setChannelsPWM_return /\ UNCHANGED <<servoVars, chipVars>>
    \/ returned /\ UNCHANGED <<servoVars, chipVars>>
    \/ /\ pc = "idle"
       /\ \E ch \in AnyChannelArgs, code \in ErrorCodes, bytesRead \in BytesReadCounts,
             pair \in ReadbackPairs :
              getChannelPWM(ch, code, bytesRead, phaseBytes(pair[1], pair[2]))
       /\ UNCHANGED <<servoVars, chipVars>>
    \/ /\ pc = "idle"
       /\ \E pwmFrequency \in PwmFrequencies, code0, code1, code2, code3 \in ErrorCodes,
             bytesRead \in BytesReadCounts, data \in Mode1Bytes :
              setPWMFrequency(pwmFrequency, code0, bytesRead, data, code1, code2, code3)
       /\ UNCHANGED <<servoVars, chipVars>>
    \/ /\ pc = "idle"
       /\ \E code0, code1, code2, code3 \in ErrorCodes, bytesRead \in BytesReadCounts,
             data \in Mode1Bytes :
              enableExtClockLine(code0, bytesRead, data, code1, code2, code3)
       /\ UNCHANGED <<servoVars, chipVars>>
    \/ /\ pc = "idle"
       /\ \E which \in DOMAIN Addresses, i2cAddressArg \in AddressArgs,
             code0, code1, code2 \in ErrorCodes, bytesRead \in BytesReadCounts,
             data \in Mode1Bytes :
              enableAddress(which, i2cAddressArg, code1, code0, bytesRead, data, code2)
       /\ UNCHANGED <<servoVars, chipVars>>
    \/ /\ pc = "idle"
       /\ \E which \in DOMAIN Addresses, code0, code1 \in ErrorCodes,
             bytesRead \in BytesReadCounts, data \in Mode1Bytes :
              disableAddress(which, code0, bytesRead, data, code1)
       /\ UNCHANGED <<servoVars, chipVars>>
    \/ /\ pc = "idle"
       /\ \E code \in ErrorCodes : resetDevices(code)
       /\ UNCHANGED <<servoVars, chipVars>>

Spec == Init /\ [][Next]_vars

(***************************************************************************)
(* Reading the wire: the transactions of a log, each the events from a     *)
(* beginTransmission to the next endTransmission.                          *)
(***************************************************************************)
EndIndexes(log) == {i \in 1 .. Len(log) : log[i][1] = "endTransmission"}

\* The transactions of log from event i on, the one at hand begun at event start.
RECURSIVE TransactionsFrom(_, _, _)
TransactionsFrom(log, i, start) ==
    IF i > Len(log)
    THEN <<>>
    ELSE IF log[i][1] = "beginTransmission"
    THEN TransactionsFrom(log, i + 1, i)
    ELSE IF log[i][1] = "endTransmission"
    THEN <<SubSeq(log, start, i)>> \o TransactionsFrom(log, i + 1, i + 1)
    ELSE TransactionsFrom(log, i + 1, start)

Transactions(log) == TransactionsFrom(log, 1, 1)

\* The write events of transaction t, the register address included.
TxWrites(t) == Cardinality({i \in 1 .. Len(t) : t[i][1] = "write"})

\* The register address transaction t starts at, and the code it closed with.
TxRegister(t) == t[2][2]

TxCode(t) == t[Len(t)][2]

\* The channels transaction t carries: four bytes each after the address.
TxChannelCount(t) == (TxWrites(t) - 1) \div 4

\* The channels a transaction starting at an LEDn register writes, the chip
\* advancing four registers per channel.
TxChannels(t) ==
    [j \in 1 .. TxChannelCount(t) |-> ((TxRegister(t) - 6) \div 4) + (j - 1)]

RECURSIVE ChannelsOf(_)
ChannelsOf(txs) ==
    IF txs = <<>> THEN <<>> ELSE TxChannels(Head(txs)) \o ChannelsOf(Tail(txs))

ErrorFree(log) == \A i \in EndIndexes(log) : log[i][2] = 0

IsPrefix(a, b) == Len(a) <= Len(b) /\ SubSeq(b, 1, Len(a)) = a

InSetChannelsPWM ==
    /\ call.op = "setChannelsPWM"
    /\ call.channel \in NamedChannels
    /\ call.numChannels >= 0

\* min(numChannels, 16 - begChannel) of the call's arguments.
ClippedCount == Min(call.numChannels, 16 - call.channel)

(***************************************************************************)
(* Properties of the operations, under Spec.                               *)
(***************************************************************************)
\* C5: on an error-free transport, setChannelsPWM(begChannel, numChannels,
\* values) with 0 <= begChannel <= 15 and numChannels >= 0 has, on return,
\* written exactly the channels begChannel .. begChannel + count - 1 for
\* count = min(numChannels, 16 - begChannel), none above 15, and read exactly
\* count entries of values; with count = 0 it opened no transaction.
C5_ClippedRange ==
    (pc = "done" /\ InSetChannelsPWM /\ ErrorFree(wire))
        => LET written == ChannelsOf(Transactions(wire))
           IN  /\ written = [i \in 1 .. ClippedCount |-> call.channel + (i - 1)]
               /\ \A i \in 1 .. Len(written) : written[i] <= 15
               /\ pwmAmounts = ClippedCount
               /\ ClippedCount = 0 => wire = <<>>

\* setChannelsPWM(0, 20, values) has written 16 channels.
C5_Witness ==
    /\ pc = "done"
    /\ InSetChannelsPWM
    /\ ErrorFree(wire)
    /\ call.channel = 0
    /\ call.numChannels = 20
    /\ Len(ChannelsOf(Transactions(wire))) = 16
    /\ pwmAmounts = 16

\* C6: every transaction setChannelsPWM opens carries at most
\* floor((B - 1) / 4) channels, B the buffer length, so that the bytes
\* written in one transaction (the register address and 4 per channel) never
\* exceed B.
C6_ChunkFitsBuffer ==
    InSetChannelsPWM
        => LET txs == Transactions(wire)
           IN  \A k \in 1 .. Len(txs) :
                   /\ TxChannelCount(txs[k]) <= (bufferLength - 1) \div 4
                   /\ TxWrites(txs[k]) = 1 + 4 * TxChannelCount(txs[k])
                   /\ TxWrites(txs[k]) <= bufferLength

\* A full transaction of 7 channels (29 bytes) in a 32-byte buffer, with
\* channels still to write.
C6_Witness ==
    /\ pc = "setChannelsPWM"
    /\ InSetChannelsPWM
    /\ bufferLength = 32
    /\ numChannels > 0
    /\ Len(Transactions(wire)) = 1
    /\ TxWrites(Transactions(wire)[1]) = 29

\* The k-th transaction (k = 0, 1, ...) of an error-free
\* setChannelsPWM(beg, num, values) on a device at addr under balancer, with
\* P channels per transaction and count channels in all.
ExpectedPair(balancer, beg, values, i) ==
    LET phase == getPhaseCycle(balancer, beg + i, values[i + 1])
    IN  <<<<"write", phase[1] % 256>>, <<"write", phase[1] \div 256>>,
          <<"write", phase[2] % 256>>, <<"write", phase[2] \div 256>>>>

RECURSIVE ExpectedPairs(_, _, _, _, _)
ExpectedPairs(balancer, beg, values, from, to) ==
    IF from > to
    THEN <<>>
    ELSE ExpectedPair(balancer, beg, values, from)
             \o ExpectedPairs(balancer, beg, values, from + 1, to)

ExpectedTransaction(addr, balancer, beg, values, count, P, k) ==
    <<<<"beginTransmission", addr>>, <<"write", 6 + 4 * (beg + k * P)>>>>
        \o ExpectedPairs(balancer, beg, values, k * P, Min((k + 1) * P, count) - 1)
        \o <<<<"endTransmission", 0>>>>

\* C7: on an error-free transport the transactions of a setChannelsPWM call
\* come in ascending channel order and tile the clipped range: with
\* P = floor((B - 1) / 4), the k-th starts at register 0x06 + 4 * (begChannel
\* + k * P) and carries the pairs getPhaseCycle(begChannel + i, values[i]) of
\* channels begChannel + k * P .. min(begChannel + (k + 1) * P, begChannel +
\* count) - 1; on return there are ceil(count / P) of them and every channel
\* of the range was written once.
C7_Tiling ==
    (InSetChannelsPWM /\ ErrorFree(wire))
        => LET P == (bufferLength - 1) \div 4
               txs == Transactions(wire)
           IN  /\ \A k \in 1 .. Len(txs) :
                      txs[k] = ExpectedTransaction(i2cAddr, phaseBalancer, call.channel,
                                                   call.pwmAmounts, ClippedCount, P, k - 1)
               /\ Len(txs) * P <= ClippedCount + (P - 1)
               /\ pc = "done" => Len(txs) * P >= ClippedCount

\* setChannelsPWM(3, 13, values) in a 9-byte buffer: 7 transactions, the last
\* with one channel.
C7_Witness ==
    /\ pc = "done"
    /\ InSetChannelsPWM
    /\ ErrorFree(wire)
    /\ phaseBalancer = "Linear"
    /\ bufferLength = 9
    /\ call.channel = 3
    /\ call.numChannels = 13
    /\ Len(Transactions(wire)) = 7
    /\ TxRegister(Transactions(wire)[7]) = 6 + 4 * 15

\* C8: setChannelsPWM is fail-fast.  Only the last transaction of a call may
\* have closed with a non-zero code; when it has, the call is over, last-error
\* is that code, and the channels written are those of the chunks so far,
\* begChannel of the call up to the loop's begChannel, each once: none of a
\* later chunk.  A step of the loop only appends to what was sent, and once
\* the call is over nothing more is sent for it.
C8_FailFast ==
    /\ [](InSetChannelsPWM
            => LET txs == Transactions(wire)
                   written == ChannelsOf(txs)
               IN  /\ \A k \in 1 .. (Len(txs) - 1) : TxCode(txs[k]) = 0
                   /\ (txs # <<>> /\ TxCode(txs[Len(txs)]) # 0)
                          => /\ pc = "done"
                             /\ lastI2CError = TxCode(txs[Len(txs)])
                             /\ written = [i \in 1 .. (begChannel - call.channel) |->
                                              call.channel + (i - 1)])
    /\ [][/\ (pc = "setChannelsPWM" /\ pc' # "idle") => IsPrefix(wire, wire')
          /\ (pc = "done" /\ call.op = "setChannelsPWM") => (pc' = "idle" /\ wire' = <<>>)
         ]_vars

\* The third transaction failed with channels left unwritten.
C8_Witness ==
    /\ pc = "done"
    /\ InSetChannelsPWM
    /\ Len(Transactions(wire)) = 3
    /\ TxCode(Transactions(wire)[3]) = 2
    /\ TxCode(Transactions(wire)[2]) = 0
    /\ lastI2CError = 2
    /\ numChannels > 0

ReadCount(log) == Cardinality({i \in 1 .. Len(log) : log[i][1] = "read"})

RequestIndexes(log) == {i \in 1 .. Len(log) : log[i][1] = "requestFrom"}

\* C9: when getChannelPWM on a valid channel has its address write succeed
\* and the transport returns n # 4 bytes to the request, it reads exactly n
\* bytes if n > 0 and none otherwise, sets last-error to 4 and returns 0.
C9_ShortRead ==
    (pc = "done" /\ call.op = "getChannelPWM")
        => \A i \in RequestIndexes(wire) :
               wire[i][2][3] # 4
                   => /\ ReadCount(wire) = Max(wire[i][2][3], 0)
                      /\ \A j \in (i + 1) .. Len(wire) : wire[j][1] = "read"
                      /\ lastI2CError = 4
                      /\ retVal = 0

\* 3 of 4 bytes arrived and were drained.
C9_Witness ==
    /\ pc = "done"
    /\ call.op = "getChannelPWM"
    /\ call.channel \in NamedChannels
    /\ Len(wire) = 7
    /\ wire[3] = <<"endTransmission", 0>>
    /\ wire[4][1] = "requestFrom"
    /\ wire[4][2][3] = 3
    /\ ReadCount(wire) = 3
    /\ lastI2CError = 4
    /\ retVal = 0

\* C10: setChannelPWM(c, d) for c in 0..15 makes exactly one transaction:
\* begin(device address), write(0x06 + 4c), the low and high bytes of
\* phaseBegin, the low and high bytes of phaseEnd, end; the pair is
\* getPhaseCycle(c, d) and last-error is the code end returned.
C10_SingleWrite ==
    (pc = "done" /\ call.op = "setChannelPWM" /\ call.channel \in NamedChannels)
        => LET phase == getPhaseCycle(phaseBalancer, call.channel, call.pwmAmount)
           IN  /\ Len(wire) = 7
               /\ SubSeq(wire, 1, 6)
                      = <<<<"beginTransmission", i2cAddr>>,
                          <<"write", 6 + 4 * call.channel>>,
                          <<"write", phase[1] % 256>>, <<"write", phase[1] \div 256>>,
                          <<"write", phase[2] % 256>>, <<"write", phase[2] \div 256>>>>
               /\ wire[7][1] = "endTransmission"
               /\ lastI2CError = wire[7][2]

\* Channel 15, amount 4000 under Linear (the pair (95, 4095)), the
\* transaction closing with code 2.
C10_Witness ==
    /\ pc = "done"
    /\ call.op = "setChannelPWM"
    /\ call.channel = 15
    /\ call.pwmAmount = 4000
    /\ phaseBalancer = "Linear"
    /\ wire = <<<<"beginTransmission", i2cAddr>>, <<"write", 66>>,
                <<"write", 95>>, <<"write", 0>>, <<"write", 255>>, <<"write", 15>>,
                <<"endTransmission", 2>>>>
    /\ lastI2CError = 2

\* The operations that take a channel (setChannelsPWM as its begChannel).
ChannelOps == {"setChannelOn", "setChannelOff", "setChannelPWM", "setChannelsPWM",
               "getChannelPWM"}

\* The transactions of log that start at the ALLLED register.
BroadcastWrites(log) ==
    {i \in 1 .. (Len(log) - 1) :
         log[i][1] = "beginTransmission" /\ log[i + 1] = <<"write", PCA9685_ALLLED_REG>>}

\* C11: setChannelOn, setChannelOff, setChannelPWM, setChannelsPWM (as
\* begChannel) and getChannelPWM called with a channel outside 0..15, the
\* ALLLED value -1 included, do no transport operation and leave last-error
\* and every other device field as they were, and getChannelPWM returns 0;
\* only setAllChannelsPWM starts a transaction at the ALLLED register.
C11_InvalidChannelRejected ==
    /\ [][(pc = "idle" /\ call'.op \in ChannelOps /\ call'.channel \notin NamedChannels)
             => /\ pc' = "done"
                /\ wire' = <<>>
                /\ UNCHANGED <<deviceVars, phaseBalancer>>
                /\ call'.op = "getChannelPWM" => retVal' = 0]_vars
    /\ [](BroadcastWrites(wire) # {} => call.op = "setAllChannelsPWM")

\* getChannelPWM(-1) on a device whose last transaction failed with code 2.
C11_Witness ==
    /\ pc = "done"
    /\ call.op = "getChannelPWM"
    /\ call.channel = PCA9685_ALLLED_CHANNEL
    /\ ~isProxyAddresser
    /\ wire = <<>>
    /\ retVal = 0
    /\ lastI2CError = 2

\* C12 as amended: the phase balancer changes only through init.  Every step
\* of every other operation, and init on a proxy addresser, leaves the value
\* getPhaseBalancer returns as it was; init on any other device sets it to the
\* phaseBalancer argument of that call, the first call or a later one.
C12_PolicySetByInitOnly ==
    [][/\ (call'.op # "init" \/ isProxyAddresser) => phaseBalancer' = phaseBalancer
       /\ (pc = "idle" /\ call'.op = "init" /\ ~isProxyAddresser)
              => phaseBalancer' = call'.pwmAmounts[5]]_vars

\* A second init, with Linear, on a device that the first init set to None.
C12_Witness ==
    /\ pc = "done"
    /\ call.op = "init"
    /\ call.pwmAmounts[5] = "Linear"
    /\ call.pwmAmounts[6] = "None"
    /\ phaseBalancer = "Linear"

\* C12: once the first init call has set the phase balancer (and with it the
\* driver mode), no operation changes the value getPhaseBalancer returns.
C12_PolicyImmutable ==
    [][driverMode # "Undefined" => phaseBalancer' = phaseBalancer]_vars

\* C13: getChannelPWM on a channel 0..15 of a device that is no proxy
\* addresser returns with last-error 0 exactly when the address write closed
\* with code 0 and 4 bytes were received; otherwise last-error is the close
\* code, no bytes having been requested, or 4 on a byte-count mismatch, and 0
\* is returned.  So a returned 0 with last-error 0 is the decode of the four
\* bytes read.  The device's last-error before the call takes every value the
\* earlier operations can leave.
C13_LastErrorAfterRead ==
    (pc = "done" /\ call.op = "getChannelPWM" /\ call.channel \in NamedChannels
         /\ ~isProxyAddresser)
        => LET code == wire[3][2]
               requests == RequestIndexes(wire)
               received == IF requests = {} THEN -1 ELSE wire[4][2][3]
           IN  /\ wire[3][1] = "endTransmission"
               /\ (lastI2CError = 0) <=> (code = 0 /\ received = 4)
               /\ code # 0 => (lastI2CError = code /\ requests = {} /\ Len(wire) = 3)
               /\ (code = 0 /\ received # 4) => (requests = {4} /\ lastI2CError = 4)
               /\ lastI2CError # 0 => retVal = 0
               /\ lastI2CError = 0
                      => /\ Len(wire) = 8
                         /\ \A i \in 5 .. 8 : wire[i][1] = "read"
                         /\ retVal = decodePhaseCycle(wire[5][2] + wire[6][2] * 256,
                                                      wire[7][2] + wire[8][2] * 256)

\* A read that succeeded and decoded the full-OFF pair (0, 4096) to 0.
C13_Witness ==
    /\ pc = "done"
    /\ call.op = "getChannelPWM"
    /\ call.channel \in NamedChannels
    /\ ~isProxyAddresser
    /\ lastI2CError = 0
    /\ retVal = 0
    /\ Len(wire) = 8
    /\ wire[8] = <<"read", 16>>

\* Where a log of transport events leaves the bus, read from event i on with
\* a write transaction open or not: "open", "closed", or "broken" when an
\* event comes out of place.
RECURSIVE Bracketing(_, _, _)
Bracketing(log, i, open) ==
    IF i > Len(log) THEN IF open THEN "open" ELSE "closed"
    ELSE IF log[i][1] = "beginTransmission"
    THEN IF open THEN "broken" ELSE Bracketing(log, i + 1, TRUE)
    ELSE IF log[i][1] = "write"
    THEN IF open THEN Bracketing(log, i + 1, TRUE) ELSE "broken"
    ELSE IF log[i][1] = "endTransmission"
    THEN IF open THEN Bracketing(log, i + 1, FALSE) ELSE "broken"
    ELSE IF open THEN "broken" ELSE Bracketing(log, i + 1, FALSE)

\* C17: transactions are well bracketed.  In the events of every public
\* operation, under every transport outcome, beginTransmission and
\* endTransmission alternate starting with beginTransmission, a write comes
\* only between a beginTransmission and its endTransmission, requestFrom and
\* read come only with no write transaction open, and no transaction is open
\* when the operation returns or between two turns of setChannelsPWM's loop.
C17_WellBracketed == Bracketing(wire, 1, FALSE) = "closed"

\* A getChannelPWM that returned on a byte-count mismatch, the surplus bytes
\* read off the bus.
C17_Witness ==
    /\ pc = "done"
    /\ call.op = "getChannelPWM"
    /\ lastI2CError = 4
    /\ Len(wire) > 4
    /\ wire[Len(wire)][1] = "read"

\* C22: a proxy addresser never reads from the bus.  Once
\* initAsProxyAddresser has taken effect, no public operation issues a
\* requestFrom or a read: getChannelPWM, setPWMFrequency, enableExtClockLine
\* and the enable and disable address operations return without one.
C22_ProxyNeverReads ==
    isProxyAddresser
        => \A i \in 1 .. Len(wire) : wire[i][1] \notin {"requestFrom", "read"}

(***************************************************************************)
(* SpecServo: PCA9685_ServoEval.                                           *)
(*                                                                         *)
(* A float is an exact fraction <<numerator, denominator>> in lowest terms *)
(* with a positive denominator: the operations are those of the code, in   *)
(* its order, without the rounding error of single precision.  Angles are  *)
(* whole multiples of ten degrees.                                         *)
(***************************************************************************)
\* The clamp of a constructor argument: min(max(amount, low), PCA9685_PWM_FULL).
clampPWMAmount(amount, low) == Min(Max(amount, low), PCA9685_PWM_FULL)

\* The linear model both constructors build: _coeff[0] and _coeff[1].
linearCoeff(minPWMAmount, maxPWMAmount) ==
    <<F(minPWMAmount), FDiv(F(maxPWMAmount - minPWMAmount), F(180))>>

\* The cubic spline fit of the three-amount constructor (n = 3) through
\* (0, y[1]), (90, y[2]), (180, y[3]): the eight coefficients a, b, c, d of the
\* two segments.
cubicSplineCoeff(y) ==
    LET x == <<F(0), F(90), F(180)>>
        h0 == FSub(x[2], x[1])
        u0 == F(0)
        z0 == F(0)
        c2 == F(0)
        \* for (int i = 1; i < 2; ++i)
        h1 == FSub(x[3], x[2])
        l0 == FSub(FMul(F(2), FSub(x[3], x[1])), FMul(h0, u0))
        u1 == FDiv(h1, l0)
        a0 == FSub(FMul(FDiv(F(3), h1), FSub(y[3], y[2])),
                   FMul(FDiv(F(3), h0), FSub(y[2], y[1])))
        z1 == FDiv(FSub(a0, FMul(h0, z0)), l0)
        \* for (int i = 1; i >= 0; --i)
        c1 == FSub(z1, FMul(u1, c2))
        b1 == FSub(FDiv(FSub(y[3], y[2]), h1),
                   FDiv(FMul(h1, FAdd(c2, FMul(F(2), c1))), F(3)))
        d1 == FDiv(FSub(c2, c1), FMul(F(3), h1))
        c0 == FSub(z0, FMul(u0, c1))
        b0 == FSub(FDiv(FSub(y[2], y[1]), h0),
                   FDiv(FMul(h0, FAdd(c1, FMul(F(2), c0))), F(3)))
        d0 == FDiv(FSub(c1, c0), FMul(F(3), h0))
    IN  <<y[1], b0, c0, d0, y[2], b1, c1, d1>>

\* PCA9685_ServoEval(minPWMAmount, maxPWMAmount): the fields it sets.
PCA9685_ServoEval2(minPWMAmount, maxPWMAmount) ==
    LET min1 == clampPWMAmount(minPWMAmount, 0)
        max1 == clampPWMAmount(maxPWMAmount, min1)
    IN  [coeff |-> linearCoeff(min1, max1), isCSpline |-> FALSE]

\* As PCA9685_ServoEval3, the spline never fitted.
PCA9685_ServoEval3_NeverSpline(minPWMAmount, midPWMAmount, maxPWMAmount) ==
    PCA9685_ServoEval2(minPWMAmount, Max(midPWMAmount, maxPWMAmount))

\* PCA9685_ServoEval(minPWMAmount, midPWMAmount, maxPWMAmount): the fields it
\* sets.
PCA9685_ServoEval3(minPWMAmount, midPWMAmount, maxPWMAmount) ==
    LET min1 == clampPWMAmount(minPWMAmount, 0)
        mid1 == clampPWMAmount(midPWMAmount, min1)
        max1 == clampPWMAmount(maxPWMAmount, mid1)
    IN  IF max1 - mid1 # mid1 - min1
        THEN [coeff |-> cubicSplineCoeff(<<F(min1), F(mid1), F(max1)>>), isCSpline |-> TRUE]
        ELSE [coeff |-> linearCoeff(min1, max1), isCSpline |-> FALSE]

\* A cubic a + b t + c t t + d t t t, the coefficients from cf[at] on,
\* multiplied out from the left as the code does.
cubicAt(cf, at, t) ==
    FAdd(FAdd(FAdd(cf[at], FMul(cf[at + 1], F(t))),
              FMul(FMul(cf[at + 2], F(t)), F(t))),
         FMul(FMul(FMul(cf[at + 3], F(t)), F(t)), F(t)))

\* pwmForAngle's float retVal for the angle as given.
pwmForAngleValue(cf, spline, givenAngle) ==
    LET shifted == constrain(givenAngle + 90, 0, 180)
    IN  IF ~spline
        THEN FAdd(cf[1], FMul(cf[2], F(shifted)))
        ELSE IF shifted <= 90
        THEN cubicAt(cf, 1, shifted)
        ELSE cubicAt(cf, 5, shifted - 90)

\* (uint16_t) of a float holding the integer r.  Out of the range of uint16_t
\* the conversion is undefined: a build produces the value modulo 2^16 or the
\* nearest end of the range.
castToUint16(r) ==
    IF r >= 0 /\ r <= UINT16_MAX
    THEN {r}
    ELSE {r % (UINT16_MAX + 1), IF r < 0 THEN 0 ELSE UINT16_MAX}

\* Angles given to pwmForAngle: the multiples of ten degrees up to
\* MaxAngleTens tens either way.
MaxAngleTens == 18

ServoAngles == {10 * k : k \in (-MaxAngleTens) .. MaxAngleTens}

\* Constructor arguments: two amounts or three.
ServoEvalArgs ==
    {<<102, 512>>, <<102, 307, 512>>, <<102, 300, 512>>, <<0, 0, 4096>>,
     <<0, 4096, 4096>>, <<1000, 3000, 3500>>, <<5000, 100, 50>>}

InitServo ==
    /\ Constructed(0, 32)
    /\ phaseBalancer = "Undefined"
    /\ NoServoEval
    /\ NoChip
    /\ pc = "no servo"
    /\ retVal = "void"
    /\ channel = 0
    /\ pwmAmount = 0
    /\ phaseBegin = 0
    /\ phaseEnd = 0

\* new PCA9685_ServoEval(amounts...)
constructServoEval(amounts) ==
    /\ pc = "no servo"
    /\ pc' = "constructed"
    /\ call' = Call("PCA9685_ServoEval", 0, 0, amounts, 0)
    /\ LET fields == IF Len(amounts) = 2
                     THEN PCA9685_ServoEval2(amounts[1], amounts[2])
                     ELSE PCA9685_ServoEval3(amounts[1], amounts[2], amounts[3])
       IN  /\ coeff' = fields.coeff
           /\ isCSpline' = fields.isCSpline
    /\ UNCHANGED <<deviceVars, phaseBalancer, bufferLength, wire, loopVars, retVal, phaseVars,
                   angle, chipVars>>

\* pwmForAngle(angle), the conversion to uint16_t giving converted.
pwmForAngle(givenAngle, converted) ==
    /\ pc \in {"constructed", "evaluated"}
    /\ pc' = "evaluated"
    /\ angle' = givenAngle
    /\ converted \in castToUint16(roundf(pwmForAngleValue(coeff, isCSpline, givenAngle)))
    /\ retVal' = Min(Max(converted, 0), PCA9685_PWM_FULL)
    /\ UNCHANGED <<deviceVars, phaseBalancer, busVars, loopVars, phaseVars, coeff, isCSpline,
                   chipVars>>

NextServo ==
    \/ \E amounts \in ServoEvalArgs : constructServoEval(amounts)
    \/ /\ pc \in {"constructed", "evaluated"}
       /\ \E givenAngle \in ServoAngles :
              \E converted \in castToUint16(roundf(pwmForAngleValue(coeff, isCSpline,
                                                                    givenAngle))) :
                  pwmForAngle(givenAngle, converted)

SpecServo == InitServo /\ [][NextServo]_vars

(***************************************************************************)
(* Properties of the servo evaluator, under SpecServo.                     *)
(***************************************************************************)
\* C15 as amended: the evaluator built with (102, 307, 512) uses the linear
\* model and gives pwmForAngle(-90) = 102 and pwmForAngle(90) = 512 up to
\* rounding (and 512 for 180, which is clamped to 90); the evaluator built
\* with (102, 300, 512) uses the cubic spline and gives pwmForAngle(0) = 300
\* exactly.  pwmForAngle adds 90 to its argument before it evaluates the
\* model: the calibration points are at -90, 0 and 90.
C15_CalibrationPointsShifted ==
    pc = "evaluated"
        => /\ call.pwmAmounts = <<102, 307, 512>>
                  => /\ ~isCSpline
                     /\ angle = -90 => Abs(retVal - 102) <= 1
                     /\ angle \in {90, 180} => Abs(retVal - 512) <= 1
           /\ call.pwmAmounts = <<102, 300, 512>>
                  => /\ isCSpline
                     /\ angle = 0 => retVal = 300

\* The spline through (102, 300, 512) evaluated at its middle point.
C15_Witness ==
    /\ pc = "evaluated"
    /\ call.pwmAmounts = <<102, 300, 512>>
    /\ isCSpline
    /\ angle = 0
    /\ retVal = 300

\* C15: the evaluator built with (102, 307, 512) uses the linear model and
\* gives pwmForAngle(0) = 102 and pwmForAngle(180) = 512 up to rounding; the
\* evaluator built with (102, 300, 512) uses the cubic spline and gives
\* pwmForAngle(90) = 300 exactly.
C15_CalibrationPoints ==
    pc = "evaluated"
        => /\ call.pwmAmounts = <<102, 307, 512>>
                  => /\ ~isCSpline
                     /\ angle = 0 => Abs(retVal - 102) <= 1
                     /\ angle = 180 => Abs(retVal - 512) <= 1
           /\ call.pwmAmounts = <<102, 300, 512>>
                  => /\ isCSpline
                     /\ angle = 90 => retVal = 300

\* C16: for every evaluator constructed and every angle, pwmForAngle returns
\* the model's value rounded to the nearest integer r and clamped to
\* [0, 4096]: 0 when r < 0, 4096 when r > 4096, r otherwise.
C16_RoundedThenClamped ==
    pc = "evaluated"
        => LET r == roundf(pwmForAngleValue(coeff, isCSpline, angle))
           IN  retVal = IF r < 0 THEN 0 ELSE IF r > PCA9685_PWM_FULL THEN PCA9685_PWM_FULL ELSE r

(***************************************************************************)
(* SpecLoop: setChannelsPWM running to its end.                            *)
(*                                                                         *)
(* The calls are setChannelsPWM calls.  The processor runs the loop on:    *)
(* a turn that can be taken is taken (the transport returns from           *)
(* endTransmission with some code), and the call returns when the loop     *)
(* condition fails.                                                        *)
(***************************************************************************)
\* One turn of the while loop, whatever the transport returns.
setChannelsPWM_turn == \E code \in ErrorCodes : setChannelsPWM_write(code)

NextLoop ==
    \/ /\ pc = "idle"
       /\ \E beg \in AnyChannelArgs, num \in NumChannelsArgs, values \in PwmArrays :
              setChannelsPWM(beg, num, values)
       /\ UNCHANGED <<servoVars, chipVars>>
    \/ /\ pc = "setChannelsPWM"
       /\ setChannelsPWM_turn
       /\ UNCHANGED <<servoVars, chipVars>>
    \/ setChannelsPWM_return /\ UNCHANGED <<servoVars, chipVars>>
    \/ returned /\ UNCHANGED <<servoVars, chipVars>>

SpecLoop ==
    /\ Init
    /\ [][NextLoop]_vars
    /\ WF_vars(setChannelsPWM_turn /\ UNCHANGED <<servoVars, chipVars>>)
    /\ WF_vars(setChannelsPWM_return /\ UNCHANGED <<servoVars, chipVars>>)

\* a / b rounded up, for b > 0.
CeilDiv(a, b) == (a + b - 1) \div b

\* C20: setChannelsPWM terminates when the buffer length B is at least 5.
\* Every call that entered the loop returns; every transaction it opens
\* carries at least one channel; whatever the arguments and the codes the
\* transport returns, it opens at most ceil(count / floor((B - 1) / 4))
\* transactions, count the clipped channel count, and exactly that many when
\* it returns with no transaction failed.
C20_Terminates ==
    /\ (pc = "setChannelsPWM") ~> (pc = "done")
    /\ []((bufferLength >= 5 /\ InSetChannelsPWM)
             => LET txs == Transactions(wire)
                    most == CeilDiv(ClippedCount, (bufferLength - 1) \div 4)
                IN  /\ \A k \in 1 .. Len(txs) : TxChannelCount(txs[k]) >= 1
                    /\ Len(txs) <= most
                    /\ (pc = "done" /\ ErrorFree(wire)) => Len(txs) = most)

\* setChannelsPWM(3, 20, values) with a 9-byte buffer returned after 7
\* transactions, the last one carrying the 13th channel alone.
C20_Witness ==
    /\ pc = "done"
    /\ InSetChannelsPWM
    /\ bufferLength = 9
    /\ call.channel = 3
    /\ call.numChannels = 20
    /\ ErrorFree(wire)
    /\ Len(Transactions(wire)) = 7
    /\ TxChannelCount(Transactions(wire)[7]) = 1

(***************************************************************************)
(* SpecChip: the driver on a faithful transport.                           *)
(*                                                                         *)
(* The chip is an array of registers with an address pointer that          *)
(* auto-increments: the first byte of a write transaction sets the         *)
(* pointer, each later byte is stored at the pointer, which then advances; *)
(* a request delivers the bytes from the pointer on.  No transaction       *)
(* fails and every request is answered in full.  The chip holds what       *)
(* earlier use left in it (ChipFills); one write call is made on it, and   *)
(* any number of init and getChannelPWM calls.                             *)
(***************************************************************************)
\* The register addresses of the chip the driver reaches here: MODE1 to the
\* last register of channel 15.
ChipRegisters == PCA9685_MODE1_REG .. (PCA9685_LED0_REG + 4 * PCA9685_CHANNEL_COUNT - 1)

\* The address pointer after one more byte: back to the first register after
\* the last.
ChipAdvance(pointer) == IF pointer + 1 \in ChipRegisters THEN pointer + 1 ELSE 0

\* The registers after the chip took the events of log from event i on, with
\* the address pointer at pointer (-1: the next byte written is an address).
RECURSIVE ChipTakes(_, _, _, _)
ChipTakes(regs, log, i, pointer) ==
    IF i > Len(log) THEN regs
    ELSE IF log[i][1] = "beginTransmission" THEN ChipTakes(regs, log, i + 1, -1)
    ELSE IF log[i][1] = "write"
    THEN IF pointer = -1
         THEN ChipTakes(regs, log, i + 1, log[i][2])
         ELSE ChipTakes([regs EXCEPT ![pointer] = log[i][2]], log, i + 1,
                        ChipAdvance(pointer))
    ELSE ChipTakes(regs, log, i + 1, pointer)

\* The registers after the chip took the events of the step.
ChipTook == ChipTakes(registers, SubSeq(wire', Len(wire) + 1, Len(wire')), 1, -1)

\* The four bytes the chip delivers from pointer on.
ChipDelivers(regs, pointer) ==
    <<regs[pointer], regs[ChipAdvance(pointer)], regs[ChipAdvance(ChipAdvance(pointer))],
      regs[ChipAdvance(ChipAdvance(ChipAdvance(pointer)))]>>

\* The registers of a chip after power-on (MODE1 0x11, MODE2 0x04, every
\* channel full off), of a chip used before, and of one with every channel
\* full on.
ChipFills ==
    {[r \in ChipRegisters |->
         IF r = PCA9685_MODE1_REG THEN 17
         ELSE IF r = PCA9685_MODE2_REG THEN 4
         ELSE IF r >= PCA9685_LED0_REG /\ r < PCA9685_LED0_REG + 64
                 /\ (r - PCA9685_LED0_REG) % 4 = 3 THEN 16
         ELSE 0],
     [r \in ChipRegisters |->
         IF r >= PCA9685_LED0_REG /\ r < PCA9685_LED0_REG + 64
         THEN IF (r - PCA9685_LED0_REG) % 2 = 0 THEN (3 * r) % 256 ELSE r % 16
         ELSE 0],
     [r \in ChipRegisters |->
         IF r >= PCA9685_LED0_REG /\ r < PCA9685_LED0_REG + 64
                 /\ (r - PCA9685_LED0_REG) % 4 = 1 THEN 16
         ELSE 0]}

\* The channels and the begChannel, numChannels arguments used on the chip.
ChipChannels == PCA9685_MIN_CHANNEL .. PCA9685_MAX_CHANNEL

ChipRanges == {<<0, 16>>, <<0, 3>>, <<6, 5>>, <<14, 4>>}

InitChip ==
    /\ \E addr \in I2CAddresses, len \in BufferLengths : Constructed(addr, len)
    /\ NoServoEval
    /\ registers \in ChipFills
    /\ writeCalls = <<>>
    /\ phaseBalancer = "Undefined"
    /\ pc = "idle"
    /\ retVal = "void"
    /\ channel = 0
    /\ pwmAmount = 0
    /\ phaseBegin = 0
    /\ phaseEnd = 0

NextChip ==
    \/ /\ pc = "idle"
       /\ \E args \in InitArgs : init(args[1], args[2], args[3], args[4], args[5], 0, 0)
       /\ registers' = ChipTook
       /\ UNCHANGED <<writeCalls, servoVars>>
    \/ /\ pc = "idle"
       /\ writeCalls = <<>>
       /\ \E ch \in ChipChannels, amount \in PwmSampleSet : setChannelPWM(ch, amount, 0)
       /\ registers' = ChipTook
       /\ writeCalls' = Append(writeCalls, call')
       /\ UNCHANGED servoVars
    \/ /\ pc = "idle"
       /\ writeCalls = <<>>
       /\ \E range \in ChipRanges, values \in PwmArrays :
              setChannelsPWM(range[1], range[2], values)
       /\ registers' = ChipTook
       /\ writeCalls' = Append(writeCalls, call')
       /\ UNCHANGED servoVars
    \/ /\ pc = "setChannelsPWM"
       /\ setChannelsPWM_write(0)
       /\ registers' = ChipTook
       /\ UNCHANGED <<writeCalls, servoVars>>
    \/ setChannelsPWM_return /\ UNCHANGED <<servoVars, chipVars>>
    \/ returned /\ UNCHANGED <<servoVars, chipVars>>
    \/ /\ pc = "idle"
       /\ \E ch \in ChipChannels :
              \* the chip delivers from the address the driver wrote
              LET pointer == PCA9685_LED0_REG + 4 * ch
              IN  /\ getChannelPWM(ch, 0, 4, ChipDelivers(registers, pointer))
                  /\ Len(wire') > 1
                  /\ wire'[2] = <<"write", pointer>>
       /\ UNCHANGED <<servoVars, chipVars>>

SpecChip == InitChip /\ [][NextChip]_vars

\* A write call covers channel c: setChannelPWM on c, or setChannelsPWM with
\* c in its range.
Covers(w, c) ==
    \/ w.op = "setChannelPWM" /\ w.channel = c
    \/ w.op = "setChannelsPWM" /\ c >= w.channel /\ c < w.channel + w.numChannels

\* The duty a write call that covers channel c gave for it.
DutyFor(w, c) ==
    IF w.op = "setChannelPWM" THEN w.pwmAmount ELSE w.pwmAmounts[c - w.channel + 1]

\* The four registers of channel c.
ChannelRegisters(regs, c) == [i \in 1 .. 4 |-> regs[PCA9685_LED0_REG + 4 * c + i - 1]]

\* C19: the write/read round trip on the faithful chip.  Under every policy,
\* getChannelPWM(c) returns min(d, 4096) for the duty d the last write call
\* covering c gave it (setChannelPWM(c, d), or setChannelsPWM with c in its
\* range and d its value for c); and every step leaves the registers of the
\* channels its call does not cover as they were.
C19_RoundTrip ==
    /\ [][\A c \in ChipChannels :
             ~Covers(call', c)
                 => ChannelRegisters(registers', c) = ChannelRegisters(registers, c)]_vars
    /\ [](pc = "done" /\ call.op = "getChannelPWM"
             => \A i \in DOMAIN writeCalls :
                    (/\ Covers(writeCalls[i], call.channel)
                     /\ \A j \in DOMAIN writeCalls :
                            j > i => ~Covers(writeCalls[j], call.channel))
                        => retVal = Min(DutyFor(writeCalls[i], call.channel), PCA9685_PWM_FULL))

\* Channel 15 read back under the Linear policy after setChannelPWM(15, 2048)
\* on a chip used before: the window written is 2047 to 4095, channel 14
\* holds what it held.
C19_Witness ==
    /\ pc = "done"
    /\ call.op = "getChannelPWM"
    /\ call.channel = 15
    /\ phaseBalancer = "Linear"
    /\ writeCalls = <<Call("setChannelPWM", 15, 0, <<>>, 2048)>>
    /\ ChannelRegisters(registers, 15) = <<255, 7, 255, 15>>
    /\ ChannelRegisters(registers, 14) = <<186, 15, 192, 1>>
    /\ retVal = 2048

(***************************************************************************)
(* SpecMode1: the operations on the MODE1 register, on a chip.             *)
(*                                                                         *)
(* The chip is the register array of SpecChip, with the PRE_SCALE          *)
(* register.  The transport may fail: a write transaction that closes with *)
(* a code other than 0 leaves the chip's registers as they were, one that  *)
(* closes with 0 is stored; a request answered with one byte delivers      *)
(* the register the driver addressed.  The chip holds in MODE1 what        *)
(* earlier use left there (Mode1Fills); init may be called on it, and one  *)
(* operation on MODE1 is.                                                  *)
(***************************************************************************)
\* The registers after the chip took, of the transactions txs, those that
\* closed with code 0.
RECURSIVE ChipTakesAcked(_, _)
ChipTakesAcked(regs, txs) ==
    IF txs = <<>> THEN regs
    ELSE ChipTakesAcked(IF TxCode(Head(txs)) = 0
                        THEN ChipTakes(regs, Head(txs), 1, -1)
                        ELSE regs,
                        Tail(txs))

\* The registers after the chip took the transactions of the step, and every
\* request of the step was made after MODE1 was addressed.
ChipTookAcked ==
    /\ registers' = ChipTakesAcked(registers, Transactions(wire'))
    /\ \A i \in 1 .. Len(wire') :
           wire'[i][1] = "requestFrom" => wire'[i - 2] = <<"write", PCA9685_MODE1_REG>>

\* The chip after power-on but for MODE1, which holds mode1: MODE2 0x04, the
\* all-call and sub-addresses at their defaults, PRE_SCALE 0x1E.
ChipHolding(mode1) ==
    [r \in ChipRegisters \cup {PCA9685_PRESCALE_REG} |->
        IF r = PCA9685_MODE1_REG THEN mode1
        ELSE IF r = PCA9685_MODE2_REG THEN 4
        ELSE IF r = PCA9685_SUBADR1_REG THEN 226
        ELSE IF r = PCA9685_SUBADR2_REG THEN 228
        ELSE IF r = PCA9685_SUBADR3_REG THEN 232
        ELSE IF r = PCA9685_ALLCALL_REG THEN 224
        ELSE IF r = PCA9685_PRESCALE_REG THEN 30
        ELSE 0]

\* What MODE1 may hold: the power-on value (sleep, all-call), what init
\* writes with the restart done, a sleeping chip with a restart pending, and
\* a chip on the external clock answering to its sub-addresses.
Mode1Fills ==
    {PCA9685_MODE1_SLEEP + PCA9685_MODE1_ALLCALL,
     PCA9685_MODE1_AUTOINC,
     PCA9685_MODE1_RESTART + PCA9685_MODE1_AUTOINC + PCA9685_MODE1_SLEEP
         + PCA9685_MODE1_ALLCALL,
     PCA9685_MODE1_EXTCLK + PCA9685_MODE1_AUTOINC + PCA9685_MODE1_SUBADR1
         + PCA9685_MODE1_SUBADR2 + PCA9685_MODE1_SUBADR3}

\* The byte counts a request for one byte is answered with: none, the one,
\* one too many.
Mode1BytesReadCounts == {n \in BytesReadCounts : n <= 2}

InitMode1 ==
    /\ \E addr \in I2CAddresses : Constructed(addr, 32)
    /\ NoServoEval
    /\ \E mode1 \in Mode1Fills : registers = ChipHolding(mode1)
    /\ writeCalls = <<>>
    /\ phaseBalancer = "Undefined"
    /\ pc = "idle"
    /\ retVal = "void"
    /\ channel = 0
    /\ pwmAmount = 0
    /\ phaseBegin = 0
    /\ phaseEnd = 0

NextMode1 ==
    \/ /\ pc = "idle"
       /\ writeCalls = <<>>
       /\ \E a \in {b \in InitArgs : b[5] = "Linear"}, code1, code2 \in ErrorCodes :
              init(a[1], a[2], a[3], a[4], a[5], code1, code2)
       /\ ChipTookAcked
       /\ UNCHANGED <<writeCalls, servoVars>>
    \/ /\ pc = "idle"
       /\ writeCalls = <<>>
       /\ \E pwmFrequency \in PwmFrequencies, code0, code1, code2, code3 \in ErrorCodes,
             bytesRead \in Mode1BytesReadCounts :
              setPWMFrequency(pwmFrequency, code0, bytesRead, registers[PCA9685_MODE1_REG],
                              code1, code2, code3)
       /\ ChipTookAcked
       /\ writeCalls' = <<call'>>
       /\ UNCHANGED servoVars
    \/ /\ pc = "idle"
       /\ writeCalls = <<>>
       /\ \E code0, code1, code2, code3 \in ErrorCodes, bytesRead \in Mode1BytesReadCounts :
              enableExtClockLine(code0, bytesRead, registers[PCA9685_MODE1_REG],
                                 code1, code2, code3)
       /\ ChipTookAcked
       /\ writeCalls' = <<call'>>
       /\ UNCHANGED servoVars
    \/ /\ pc = "idle"
       /\ writeCalls = <<>>
       /\ \E which \in DOMAIN Addresses, i2cAddressArg \in AddressArgs,
             code0, code1, code2 \in ErrorCodes, bytesRead \in Mode1BytesReadCounts :
              enableAddress(which, i2cAddressArg, code1, code0, bytesRead,
                            registers[PCA9685_MODE1_REG], code2)
       /\ ChipTookAcked
       /\ writeCalls' = <<call'>>
       /\ UNCHANGED servoVars
    \/ /\ pc = "idle"
       /\ writeCalls = <<>>
       /\ \E which \in DOMAIN Addresses, code0, code1 \in ErrorCodes,
             bytesRead \in Mode1BytesReadCounts :
              disableAddress(which, code0, bytesRead, registers[PCA9685_MODE1_REG], code1)
       /\ ChipTookAcked
       /\ writeCalls' = <<call'>>
       /\ UNCHANGED servoVars
    \/ returned /\ UNCHANGED <<servoVars, chipVars>>

SpecMode1 == InitMode1 /\ [][NextMode1]_vars

\* The MODE1 bits an operation sets or clears.
OwnBits(op) ==
    IF op = "setPWMFrequency" THEN PCA9685_MODE1_RESTART + PCA9685_MODE1_SLEEP
    ELSE IF op = "enableExtClockLine"
    THEN PCA9685_MODE1_RESTART + PCA9685_MODE1_SLEEP + PCA9685_MODE1_EXTCLK
    ELSE IF \E which \in DOMAIN Addresses :
                op \in {Addresses[which].enable, Addresses[which].disable}
    THEN LET which == CHOOSE w \in DOMAIN Addresses :
                          op \in {Addresses[w].enable, Addresses[w].disable}
         IN  Addresses[which].bit
    ELSE 0

\* The operations that read, modify and write MODE1.
Mode1Operations ==
    {"setPWMFrequency", "enableExtClockLine"}
        \cup {Addresses[which].enable : which \in DOMAIN Addresses}
        \cup {Addresses[which].disable : which \in DOMAIN Addresses}

\* C21: the operations that read-modify-write MODE1 (setPWMFrequency,
\* enableExtClockLine, the enable and disable all-call and sub-address
\* operations) change only their own bits: every other MODE1 bit of the chip,
\* the auto-increment bit among them, has after the call the value it had
\* before, whatever the transport returns inside the call, a failed read of
\* MODE1 included.
C21_OnlyOwnBits ==
    [][(pc = "idle" /\ call'.op \in Mode1Operations)
           => BitClear(registers'[PCA9685_MODE1_REG], OwnBits(call'.op))
                  = BitClear(registers[PCA9685_MODE1_REG], OwnBits(call'.op))]_vars

=============================================================================
